---- MODULE Spec2Model ----
(***************************************************************************)
(* Model of ParserLogs (src/src/parser/parser_logs.py): the line-by-line   *)
(* reconstruction of per-(valgroup, slot) consensus timelines from         *)
(* validator logs, and the inference pass that derives the collate,        *)
(* notarize and finalize phases.                                           *)
(*                                                                         *)
(* A log line is modelled by what the regular expressions of the parser    *)
(* extract from it: its timestamp, its valgroup, the category keyword it   *)
(* carries and the captured sub-fields.  Timestamps are milliseconds,      *)
(* modelled as integers.                                                   *)
(***************************************************************************)
EXTENDS Integers, Sequences, FiniteSets, Bags, TLC

VARIABLES
    slots,          \* self.slots: insertion-ordered dict, as the sequence of its SlotData values
    collated,       \* self.collated: slot_id -> (label -> EventData)
    votes,          \* self.votes: slot_id -> (vote -> list of VoteData)
    total_weights,  \* self.total_weights: valgroup -> int
    slot_leaders,   \* self.slot_leaders: slot_id -> validator id
    events,         \* self.events: list of EventData
    v_groups,       \* parse(): per-file valgroup -> validator id
    v_weights,      \* parse(): per-file valgroup -> own weight
    pc,             \* position of parse(): "parsing", "done" (returned) or "error" (raised)
    file_no,        \* index of the file being read
    n_lines,        \* number of lines read so far, over all files
    seen,           \* history: bag of the target-reached, skip and vote lines that reached their handler
    announced,      \* history: sequence of the leader-window announcements that were applied
    returned,       \* history: the ConsensusData values returned by parse(), as they were when returned
    logs,           \* self.logs_path: the lines of each file, where the files are fixed in advance
    figure          \* what build_summary passed to SummaryFigureBuilder, <<>> before it is called

vars == <<slots, collated, votes, total_weights, slot_leaders, events,
          v_groups, v_weights, pc, file_no, n_lines, seen, announced,
          returned, logs, figure>>

----------------------------------------------------------------------------
(* Bounds of the model *)

MaxLines == 4
MaxChainLines == 5
MaxFiles == 2
MaxVotes == 3

----------------------------------------------------------------------------
(* Values *)

None == -1

NoValgroup == ""

EmptyDict == [k \in {} |-> None]

HasKey(d, k) == k \in DOMAIN d

Put(d, k, v) == [x \in (DOMAIN d) \cup {k} |-> IF x = k THEN v ELSE d[x]]

Get(d, k) == IF HasKey(d, k) THEN d[k] ELSE None

SetDefault(d, k, v) == IF HasKey(d, k) THEN d ELSE Put(d, k, v)

Min(a, b) == IF a <= b THEN a ELSE b

TARGET_TO_LABEL ==
    [t \in {"CandidateReceived", "CollateStarted", "CollateFinished",
            "ValidateStarted", "ValidateFinished", "NotarObserved",
            "FinalObserved"} |->
        CASE t = "CandidateReceived" -> "candidate_received"
          [] t = "CollateStarted" -> "collate_started"
          [] t = "CollateFinished" -> "collate_finished"
          [] t = "ValidateStarted" -> "validate_started"
          [] t = "ValidateFinished" -> "validate_finished"
          [] t = "NotarObserved" -> "notarize_observed"
          [] t = "FinalObserved" -> "finalize_observed"]

SlotData(v_group, slot, is_empty, t_ms) ==
    [valgroup_id |-> v_group, slot |-> slot, is_empty |-> is_empty,
     slot_start_est_ms |-> t_ms, block_id |-> None, collator |-> None]

EventData(v_group, slot, label, kind, t_ms, validator, t1_ms) ==
    [valgroup_id |-> v_group, slot |-> slot, label |-> label, kind |-> kind,
     t_ms |-> t_ms, validator |-> validator, t1_ms |-> t1_ms]

VoteData(vote, t_ms, v_id, weight) ==
    [vote |-> vote, t_ms |-> t_ms, v_id |-> v_id, weight |-> weight]

\* ConsensusData(slots=list(self.slots.values()), events=self.events)
ConsensusData(sl, evs) == [slots |-> sl, events |-> evs]

----------------------------------------------------------------------------
(* Log lines, as the parser's regular expressions see them.  t_ms is None   *)
(* when the line has no timestamp token, v_group is NoValgroup when it has  *)
(* no valgroup token, ok is FALSE when a sub-field of the line's category   *)
(* is missing.                                                              *)

InfoLine(v_group, v_id, weight, total, t_ms) ==
    [kind |-> "info", v_group |-> v_group, t_ms |-> t_ms, matched |-> 3,
     v_id |-> v_id, weight |-> weight, total |-> total]

TargetLine(v_group, target, slot, t_ms) ==
    [kind |-> "target", v_group |-> v_group, t_ms |-> t_ms, ok |-> TRUE,
     target |-> target, slot |-> slot]

SkipLine(v_group, slot, t_ms) ==
    [kind |-> "skip", v_group |-> v_group, t_ms |-> t_ms, ok |-> TRUE,
     slot |-> slot]

VoteLine(v_group, slot, vote, t_ms) ==
    [kind |-> "vote", v_group |-> v_group, t_ms |-> t_ms, ok |-> TRUE,
     slot |-> slot, vote |-> vote]

LeaderLine(v_group, start_slot, end_slot, t_ms) ==
    [kind |-> "leader", v_group |-> v_group, t_ms |-> t_ms, ok |-> TRUE,
     start_slot |-> start_slot, end_slot |-> end_slot]

ExtractTimestamp(line) == line.t_ms

\* a faulty variant: a line without the token is taken for the first valgroup
ExtractValgroupDefault(line) ==
    IF line.v_group = NoValgroup THEN "mc.0" ELSE line.v_group

ExtractValgroup(line) == line.v_group

----------------------------------------------------------------------------
(* The slot registry: a dict in insertion order *)

SlotIndex(sl, slot_id) ==
    IF \E i \in 1..Len(sl) : <<sl[i].valgroup_id, sl[i].slot>> = slot_id
    THEN CHOOSE i \in 1..Len(sl) : <<sl[i].valgroup_id, sl[i].slot>> = slot_id
    ELSE 0

HasSlot(sl, slot_id) == SlotIndex(sl, slot_id) > 0

SlotOf(sl, slot_id) == sl[SlotIndex(sl, slot_id)]

----------------------------------------------------------------------------
(* _parse_stats_target_reached *)

\* a faulty variant: the Slot is made anew by every target-reached line
TargetSlotCreateAlways(sl, v_group, slot, t_ms) ==
    IF ~HasSlot(sl, <<v_group, slot>>)
    THEN Append(sl, SlotData(v_group, slot, FALSE, t_ms))
    ELSE [sl EXCEPT ![SlotIndex(sl, <<v_group, slot>>)] =
                        SlotData(v_group, slot, FALSE, t_ms)]

TargetSlotCreate(sl, v_group, slot, t_ms) ==
    IF ~HasSlot(sl, <<v_group, slot>>)
    THEN Append(sl, SlotData(v_group, slot, FALSE, t_ms))
    ELSE sl

\* a faulty variant: the estimate is the timestamp of the last line
TargetSlotStartOverwrites(sl, slot_id, t_ms) ==
    [sl EXCEPT ![SlotIndex(sl, slot_id)].slot_start_est_ms = t_ms]

TargetSlotStart(sl, slot_id, t_ms) ==
    [sl EXCEPT ![SlotIndex(sl, slot_id)].slot_start_est_ms = Min(t_ms, @)]

TargetSlotCollator(sl, slot_id, target, v_id) ==
    IF target = "CollateStarted"
    THEN [sl EXCEPT ![SlotIndex(sl, slot_id)].collator = v_id]
    ELSE sl

\* a faulty variant: the leader of the slot itself is looked up
IsNextLeaderSameSlot(leaders, target, v_group, slot, v_id) ==
    target = "FinalObserved" /\ Get(leaders, <<v_group, slot>>) = v_id

IsNextLeader(leaders, target, v_group, slot, v_id) ==
    target = "FinalObserved" /\ Get(leaders, <<v_group, slot + 1>>) = v_id

\* a faulty variant: the local event does not carry the validator
TargetEventsNoValidator(evs, leaders, target, v_group, slot, t_ms, v_id) ==
    LET evs1 == IF IsNextLeader(leaders, target, v_group, slot, v_id)
                THEN Append(evs, EventData(v_group, slot,
                                 "finalize_observed_by_next_leader",
                                 "observed", t_ms, None, None))
                ELSE evs
    IN  IF target \in DOMAIN TARGET_TO_LABEL
        THEN Append(evs1, EventData(v_group, slot, TARGET_TO_LABEL[target],
                                    "local", t_ms, None, None))
        ELSE evs1

TargetEvents(evs, leaders, target, v_group, slot, t_ms, v_id) ==
    LET evs1 == IF IsNextLeader(leaders, target, v_group, slot, v_id)
                THEN Append(evs, EventData(v_group, slot,
                                 "finalize_observed_by_next_leader",
                                 "observed", t_ms, None, None))
                ELSE evs
    IN  IF target \in DOMAIN TARGET_TO_LABEL
        THEN Append(evs1, EventData(v_group, slot, TARGET_TO_LABEL[target],
                                    "local", t_ms, v_id, None))
        ELSE evs1

\* a faulty variant: the first marker of a label is kept
TargetCollatedKeepFirst(col, target, v_group, slot, t_ms, v_id) ==
    IF target \in DOMAIN TARGET_TO_LABEL
       /\ TARGET_TO_LABEL[target] \in {"collate_started", "collate_finished"}
    THEN LET label == TARGET_TO_LABEL[target]
             ev == EventData(v_group, slot, label, "local", t_ms, v_id, None)
             col1 == SetDefault(col, <<v_group, slot>>, EmptyDict)
         IN  [col1 EXCEPT ![<<v_group, slot>>] = SetDefault(@, label, ev)]
    ELSE col

TargetCollated(col, target, v_group, slot, t_ms, v_id) ==
    IF target \in DOMAIN TARGET_TO_LABEL
       /\ TARGET_TO_LABEL[target] \in {"collate_started", "collate_finished"}
    THEN LET label == TARGET_TO_LABEL[target]
             ev == EventData(v_group, slot, label, "local", t_ms, v_id, None)
             col1 == SetDefault(col, <<v_group, slot>>, EmptyDict)
         IN  [col1 EXCEPT ![<<v_group, slot>>] = Put(@, label, ev)]
    ELSE col

ParseStatsTargetReached(line, t_ms, v_group, v_id) ==
    IF ~line.ok
    THEN UNCHANGED <<slots, collated, votes, slot_leaders, events, pc,
                     seen, announced>>
    ELSE LET target == line.target
             slot == line.slot
             slot_id == <<v_group, slot>>
         IN  /\ slots' = TargetSlotCollator(
                            TargetSlotStart(
                               TargetSlotCreate(slots, v_group, slot, t_ms),
                               slot_id, t_ms),
                            slot_id, target, v_id)
             /\ events' = TargetEvents(events, slot_leaders, target, v_group,
                                       slot, t_ms, v_id)
             /\ collated' = TargetCollated(collated, target, v_group, slot,
                                           t_ms, v_id)
             /\ seen' = seen (+) SetToBag({[v_group |-> v_group, slot |-> slot,
                                           kind |-> "target", t_ms |-> t_ms]})
             /\ UNCHANGED <<votes, slot_leaders, pc, announced>>

----------------------------------------------------------------------------
(* _parse_skip_vote *)

\* a faulty variant: a Slot made by a skip certificate is not marked empty
SkipSlotNotEmpty(sl, v_group, slot, t_ms) ==
    IF ~HasSlot(sl, <<v_group, slot>>)
    THEN Append(sl, SlotData(v_group, slot, FALSE, t_ms))
    ELSE [sl EXCEPT ![SlotIndex(sl, <<v_group, slot>>)].is_empty = TRUE]

\* a faulty variant: the skip certificate lowers the start estimate
SkipSlotLowersStart(sl, v_group, slot, t_ms) ==
    IF ~HasSlot(sl, <<v_group, slot>>)
    THEN Append(sl, SlotData(v_group, slot, TRUE, t_ms))
    ELSE [sl EXCEPT ![SlotIndex(sl, <<v_group, slot>>)] =
                        [@ EXCEPT !.is_empty = TRUE,
                                  !.slot_start_est_ms = Min(t_ms, @)]]

SkipSlot(sl, v_group, slot, t_ms) ==
    IF ~HasSlot(sl, <<v_group, slot>>)
    THEN Append(sl, SlotData(v_group, slot, TRUE, t_ms))
    ELSE [sl EXCEPT ![SlotIndex(sl, <<v_group, slot>>)].is_empty = TRUE]

ParseSkipVote(line, t_ms, v_group, v_id) ==
    IF ~line.ok
    THEN /\ pc' = "error"
         /\ UNCHANGED <<slots, collated, votes, slot_leaders, events,
                        seen, announced>>
    ELSE /\ events' = Append(events, EventData(v_group, line.slot,
                                "skip_observed", "local", t_ms, v_id, None))
         /\ slots' = SkipSlot(slots, v_group, line.slot, t_ms)
         /\ seen' = seen (+) SetToBag({[v_group |-> v_group,
                                       slot |-> line.slot,
                                       kind |-> "skip", t_ms |-> t_ms]})
         /\ UNCHANGED <<collated, votes, slot_leaders, pc, announced>>

----------------------------------------------------------------------------
(* _parse_publish_event *)

\* a faulty variant: the vote replaces the votes recorded under the key
AppendVoteReplace(vt, slot_id, vote, vd) ==
    LET vt1 == SetDefault(vt, slot_id, EmptyDict)
    IN  [vt1 EXCEPT ![slot_id] = Put(vt1[slot_id], vote, <<vd>>)]

\* a faulty variant: one vote of a validator is kept under a key
AppendVoteOncePerValidator(vt, slot_id, vote, vd) ==
    LET vt1 == SetDefault(vt, slot_id, EmptyDict)
        inner == SetDefault(vt1[slot_id], vote, <<>>)
    IN  IF \E i \in 1..Len(inner[vote]) : inner[vote][i].v_id = vd.v_id
        THEN [vt1 EXCEPT ![slot_id] = inner]
        ELSE [vt1 EXCEPT ![slot_id] = Put(inner, vote, Append(inner[vote], vd))]

AppendVote(vt, slot_id, vote, vd) ==
    LET vt1 == SetDefault(vt, slot_id, EmptyDict)
        inner == SetDefault(vt1[slot_id], vote, <<>>)
    IN  [vt1 EXCEPT ![slot_id] = Put(inner, vote, Append(inner[vote], vd))]

\* a faulty variant: an earlier assignment is kept
RECURSIVE AssignLeadersKeepFirst(_, _, _, _, _)
AssignLeadersKeepFirst(leaders, v_group, s, end_slot, v_id) ==
    IF s >= end_slot
    THEN leaders
    ELSE AssignLeadersKeepFirst(SetDefault(leaders, <<v_group, s>>, v_id),
                                v_group, s + 1, end_slot, v_id)

\* a faulty variant: the window includes its end slot
RECURSIVE AssignLeadersInclusive(_, _, _, _, _)
AssignLeadersInclusive(leaders, v_group, s, end_slot, v_id) ==
    IF s > end_slot
    THEN leaders
    ELSE AssignLeadersInclusive(Put(leaders, <<v_group, s>>, v_id),
                                v_group, s + 1, end_slot, v_id)

RECURSIVE AssignLeaders(_, _, _, _, _)
AssignLeaders(leaders, v_group, s, end_slot, v_id) ==
    IF s >= end_slot
    THEN leaders
    ELSE AssignLeaders(Put(leaders, <<v_group, s>>, v_id),
                       v_group, s + 1, end_slot, v_id)

\* a faulty variant: a vote line creates the Slot like a target-reached line
ParsePublishEventCreatesSlot(line, t_ms, v_group, v_id) ==
    IF line.kind = "vote"
    THEN IF ~line.ok
         THEN /\ pc' = "error"
              /\ UNCHANGED <<slots, collated, votes, slot_leaders, events,
                             seen, announced>>
         ELSE /\ votes' = AppendVote(votes, <<v_group, line.slot>>, line.vote,
                             VoteData(line.vote, t_ms, v_id, v_weights[v_group]))
              /\ slots' = TargetSlotCreate(slots, v_group, line.slot, t_ms)
              /\ seen' = seen (+) SetToBag({[v_group |-> v_group,
                                            slot |-> line.slot,
                                            kind |-> "vote", t_ms |-> t_ms]})
              /\ UNCHANGED <<collated, slot_leaders, events, pc, announced>>
    ELSE IF line.kind = "leader"
    THEN IF ~line.ok
         THEN /\ pc' = "error"
              /\ UNCHANGED <<slots, collated, votes, slot_leaders, events,
                             seen, announced>>
         ELSE /\ slot_leaders' = AssignLeaders(slot_leaders, v_group,
                                    line.start_slot, line.end_slot, v_id)
              /\ announced' = Append(announced,
                                 [v_group |-> v_group, v_id |-> v_id,
                                  start_slot |-> line.start_slot,
                                  end_slot |-> line.end_slot])
              /\ UNCHANGED <<slots, collated, votes, events, pc, seen>>
    ELSE UNCHANGED <<slots, collated, votes, slot_leaders, events, pc,
                     seen, announced>>

ParsePublishEvent(line, t_ms, v_group, v_id) ==
    IF line.kind = "vote"
    THEN IF ~line.ok
         THEN /\ pc' = "error"
              /\ UNCHANGED <<slots, collated, votes, slot_leaders, events,
                             seen, announced>>
         ELSE /\ votes' = AppendVote(votes, <<v_group, line.slot>>, line.vote,
                             VoteData(line.vote, t_ms, v_id, v_weights[v_group]))
              /\ seen' = seen (+) SetToBag({[v_group |-> v_group,
                                            slot |-> line.slot,
                                            kind |-> "vote", t_ms |-> t_ms]})
              /\ UNCHANGED <<slots, collated, slot_leaders, events, pc,
                             announced>>
    ELSE IF line.kind = "leader"
    THEN IF ~line.ok
         THEN /\ pc' = "error"
              /\ UNCHANGED <<slots, collated, votes, slot_leaders, events,
                             seen, announced>>
         ELSE /\ slot_leaders' = AssignLeaders(slot_leaders, v_group,
                                    line.start_slot, line.end_slot, v_id)
              /\ announced' = Append(announced,
                                 [v_group |-> v_group, v_id |-> v_id,
                                  start_slot |-> line.start_slot,
                                  end_slot |-> line.end_slot])
              /\ UNCHANGED <<slots, collated, votes, events, pc, seen>>
    ELSE UNCHANGED <<slots, collated, votes, slot_leaders, events, pc,
                     seen, announced>>

----------------------------------------------------------------------------
(* _process_vote_threshold *)

\* sorted(votes, key=lambda x: x.t_ms): a stable sort
RECURSIVE InsertByTime(_, _)
InsertByTime(sorted, v) ==
    IF sorted = <<>> \/ sorted[Len(sorted)].t_ms <= v.t_ms
    THEN Append(sorted, v)
    ELSE Append(InsertByTime(SubSeq(sorted, 1, Len(sorted) - 1), v),
                sorted[Len(sorted)])

\* a faulty variant: the votes are taken in insertion order
SortedVotesAsInserted(vs) == vs

RECURSIVE SortedVotes(_)
SortedVotes(vs) ==
    IF vs = <<>>
    THEN <<>>
    ELSE InsertByTime(SortedVotes(SubSeq(vs, 1, Len(vs) - 1)), vs[Len(vs)])

\* a faulty variant: the threshold has to be exceeded
ReachesStrictly(current_weight, weight_threshold) ==
    current_weight > weight_threshold

Reaches(current_weight, weight_threshold) == current_weight >= weight_threshold

\* the for loop: the first vote of sorted_votes, from index i on, at which the
\* running weight reaches the threshold, or None
RECURSIVE CrossingVote(_, _, _, _)
CrossingVote(sorted_votes, i, current_weight, weight_threshold) ==
    IF i > Len(sorted_votes)
    THEN None
    ELSE IF Reaches(current_weight + sorted_votes[i].weight, weight_threshold)
         THEN sorted_votes[i].t_ms
         ELSE CrossingVote(sorted_votes, i + 1,
                           current_weight + sorted_votes[i].weight,
                           weight_threshold)

ReachedLabel(label) ==
    CASE label = "notarize" -> "notarize_reached"
      [] label = "finalize" -> "finalize_reached"

\* a faulty variant: the phase event is not appended
ProcessVoteThresholdNoPhase(slot_data, vs, weight_threshold, label, phase_start) ==
    LET t == CrossingVote(SortedVotes(vs), 1, 0, weight_threshold)
    IN  IF t = None
        THEN [ret |-> None, emitted |-> <<>>]
        ELSE [ret |-> t,
              emitted |->
                <<EventData(slot_data.valgroup_id, slot_data.slot,
                            ReachedLabel(label), "reached", t, None, None)>>]

\* the events of a loop that goes on after the crossing: one pair for every
\* vote at which the cumulative weight is at or over the threshold
RECURSIVE CrossingsFrom(_, _, _, _, _, _, _)
CrossingsFrom(sv, i, w, weight_threshold, slot_data, label, phase_start) ==
    IF i > Len(sv)
    THEN <<>>
    ELSE (IF w + sv[i].weight >= weight_threshold
          THEN <<EventData(slot_data.valgroup_id, slot_data.slot,
                           ReachedLabel(label), "reached", sv[i].t_ms, None,
                           None),
                 EventData(slot_data.valgroup_id, slot_data.slot,
                           label, "phase", phase_start, None, sv[i].t_ms)>>
          ELSE <<>>)
         \o CrossingsFrom(sv, i + 1, w + sv[i].weight, weight_threshold,
                          slot_data, label, phase_start)

\* a faulty variant: the loop over the votes does not stop at the crossing
ProcessVoteThresholdNoReturn(slot_data, vs, weight_threshold, label, phase_start) ==
    LET t == CrossingVote(SortedVotes(vs), 1, 0, weight_threshold)
    IN  IF t = None
        THEN [ret |-> None, emitted |-> <<>>]
        ELSE [ret |-> t,
              emitted |-> CrossingsFrom(SortedVotes(vs), 1, 0,
                              weight_threshold, slot_data, label, phase_start)]

\* a faulty variant: the start of the phase is returned, not the crossing
ProcessVoteThresholdReturnsStart(slot_data, vs, weight_threshold, label, phase_start) ==
    LET t == CrossingVote(SortedVotes(vs), 1, 0, weight_threshold)
    IN  IF t = None
        THEN [ret |-> None, emitted |-> <<>>]
        ELSE [ret |-> phase_start,
              emitted |->
                <<EventData(slot_data.valgroup_id, slot_data.slot,
                            ReachedLabel(label), "reached", t, None, None),
                  EventData(slot_data.valgroup_id, slot_data.slot,
                            label, "phase", phase_start, None, t)>>]

\* the value returned (ret) and the events appended (emitted)
ProcessVoteThreshold(slot_data, vs, weight_threshold, label, phase_start) ==
    LET t == CrossingVote(SortedVotes(vs), 1, 0, weight_threshold)
    IN  IF t = None
        THEN [ret |-> None, emitted |-> <<>>]
        ELSE [ret |-> t,
              emitted |->
                <<EventData(slot_data.valgroup_id, slot_data.slot,
                            ReachedLabel(label), "reached", t, None, None),
                  EventData(slot_data.valgroup_id, slot_data.slot,
                            label, "phase", phase_start, None, t)>>]

----------------------------------------------------------------------------
(* _infer_slot_events *)

\* a faulty variant: two thirds, without the + 1
ThresholdOfNoPlusOne(total_weight) == (total_weight * 2) \div 3

\* a faulty variant: % in the place of //
ThresholdOfRemainder(total_weight) == ((total_weight * 2) % 3) + 1

ThresholdOf(total_weight) == (total_weight * 2) \div 3 + 1

HasCollation(col, slot_id) ==
    /\ HasKey(col, slot_id)
    /\ HasKey(col[slot_id], "collate_started")
    /\ HasKey(col[slot_id], "collate_finished")

HasVotes(vt, slot_id, vote) == HasKey(vt, slot_id) /\ HasKey(vt[slot_id], vote)

\* a faulty variant: the notarize votes are evaluated without a finished collation
NotarizeGuardAnyCollation(vt, slot_id, collate_end) ==
    HasVotes(vt, slot_id, "NotarizeVote")

NotarizeGuard(vt, slot_id, collate_end) ==
    HasVotes(vt, slot_id, "NotarizeVote") /\ collate_end # None

\* a faulty variant: the finalize votes are evaluated without a notarize crossing
FinalizeGuardAnyNotarize(vt, slot_id, notarize_reached) ==
    HasVotes(vt, slot_id, "FinalizeVote")

FinalizeGuard(vt, slot_id, notarize_reached) ==
    HasVotes(vt, slot_id, "FinalizeVote") /\ notarize_reached # None

\* one iteration of the loop over self.slots: the events it appends, and
\* whether the total-weight lookup succeeded
InferSlot(slot_data, col, vt, totals) ==
    LET slot_id == <<slot_data.valgroup_id, slot_data.slot>>
        est == <<EventData(slot_data.valgroup_id, slot_data.slot,
                           "slot_start_est", "estimate",
                           slot_data.slot_start_est_ms, None, None)>>
        has == HasCollation(col, slot_id)
        collate_start == IF has THEN col[slot_id]["collate_started"].t_ms
                         ELSE None
        collate_end == IF has THEN col[slot_id]["collate_finished"].t_ms
                       ELSE None
        collate == IF has
                   THEN <<EventData(slot_data.valgroup_id, slot_data.slot,
                                    "collate", "phase", collate_start, None,
                                    collate_end)>>
                   ELSE <<>>
    IN  IF ~HasKey(totals, slot_id[1])
        THEN [ok |-> FALSE, emitted |-> est \o collate]
        ELSE LET weight_threshold == ThresholdOf(totals[slot_id[1]])
                 notar == IF NotarizeGuard(vt, slot_id, collate_end)
                          THEN ProcessVoteThreshold(slot_data,
                                   vt[slot_id]["NotarizeVote"],
                                   weight_threshold, "notarize", collate_end)
                          ELSE [ret |-> None, emitted |-> <<>>]
                 final == IF FinalizeGuard(vt, slot_id, notar.ret)
                          THEN ProcessVoteThreshold(slot_data,
                                   vt[slot_id]["FinalizeVote"],
                                   weight_threshold, "finalize", notar.ret)
                          ELSE [ret |-> None, emitted |-> <<>>]
             IN  [ok |-> TRUE,
                  emitted |-> est \o collate \o notar.emitted \o final.emitted]

\* a faulty variant: the empty slots are passed over
RECURSIVE InferFromNotEmpty(_, _, _, _, _, _)
InferFromNotEmpty(i, sl, col, vt, totals, evs) ==
    IF i > Len(sl)
    THEN [ok |-> TRUE, events |-> evs]
    ELSE LET r == InferSlot(sl[i], col, vt, totals)
         IN  IF sl[i].is_empty
             THEN InferFromNotEmpty(i + 1, sl, col, vt, totals, evs)
             ELSE IF r.ok
             THEN InferFromNotEmpty(i + 1, sl, col, vt, totals,
                                    evs \o r.emitted)
             ELSE [ok |-> FALSE, events |-> evs \o r.emitted]

RECURSIVE InferFrom(_, _, _, _, _, _)
InferFrom(i, sl, col, vt, totals, evs) ==
    IF i > Len(sl)
    THEN [ok |-> TRUE, events |-> evs]
    ELSE LET r == InferSlot(sl[i], col, vt, totals)
         IN  IF r.ok
             THEN InferFrom(i + 1, sl, col, vt, totals, evs \o r.emitted)
             ELSE [ok |-> FALSE, events |-> evs \o r.emitted]

\* a faulty variant: the pass runs inside the loops, and the reading goes on
InferSlotEventsInLoop ==
    /\ pc = "parsing"
    /\ LET r == InferFrom(1, slots, collated, votes, total_weights, events)
       IN  /\ events' = r.events
           /\ pc' = IF r.ok THEN "parsing" ELSE "error"
    /\ UNCHANGED <<slots, collated, votes, total_weights, slot_leaders,
                   v_groups, v_weights, file_no, n_lines, seen, announced,
                   returned, logs, figure>>

\* the end of parse(): the inference pass, then the snapshot is returned
InferSlotEvents ==
    /\ pc = "parsing"
    /\ LET r == InferFrom(1, slots, collated, votes, total_weights, events)
       IN  /\ events' = r.events
           /\ pc' = IF r.ok THEN "done" ELSE "error"
           /\ returned' = IF r.ok
                          THEN Append(returned, ConsensusData(slots, r.events))
                          ELSE returned
    /\ UNCHANGED <<slots, collated, votes, total_weights, slot_leaders,
                   v_groups, v_weights, file_no, n_lines, seen, announced,
                   logs, figure>>

----------------------------------------------------------------------------
(* _parse_validator_info, _process_log_line and the loops of parse *)

\* a faulty variant: a pattern that does not match is passed over
ParseValidatorInfoNoAssert(line, v_group) ==
    /\ v_groups' = IF line.matched >= 1
                   THEN Put(v_groups, v_group, line.v_id) ELSE v_groups
    /\ v_weights' = IF line.matched >= 2
                    THEN Put(v_weights, v_group, line.weight) ELSE v_weights
    /\ total_weights' = IF line.matched >= 3
                        THEN Put(total_weights, v_group, line.total)
                        ELSE total_weights
    /\ pc' = pc

\* matched: how many of the three patterns (validator, weight, total) match
ParseValidatorInfo(line, v_group) ==
    /\ v_groups' = IF line.matched >= 1
                   THEN Put(v_groups, v_group, line.v_id) ELSE v_groups
    /\ v_weights' = IF line.matched >= 2
                    THEN Put(v_weights, v_group, line.weight) ELSE v_weights
    /\ total_weights' = IF line.matched >= 3
                        THEN Put(total_weights, v_group, line.total)
                        ELSE total_weights
    /\ pc' = IF line.matched >= 3 THEN pc ELSE "error"

ProcessLogLine(line, v_group, t_ms) ==
    LET v_id == Get(v_groups, v_group)
    IN  IF v_id = None
        THEN UNCHANGED <<slots, collated, votes, slot_leaders, events, pc,
                         seen, announced>>
        ELSE CASE line.kind = "target" ->
                    ParseStatsTargetReached(line, t_ms, v_group, v_id)
               [] line.kind = "skip" ->
                    ParseSkipVote(line, t_ms, v_group, v_id)
               [] line.kind \in {"vote", "leader", "published"} ->
                    ParsePublishEvent(line, t_ms, v_group, v_id)
               [] OTHER ->
                    UNCHANGED <<slots, collated, votes, slot_leaders, events,
                                pc, seen, announced>>

\* the body of the loop over the lines of a file
LoopBody(line) ==
    LET t_ms == ExtractTimestamp(line)
        v_group == ExtractValgroup(line)
    IN  /\ n_lines' = n_lines + 1
        /\ UNCHANGED <<file_no, returned, logs, figure>>
        /\ IF t_ms = None \/ v_group = NoValgroup
           THEN UNCHANGED <<slots, collated, votes, total_weights,
                            slot_leaders, events, v_groups, v_weights, pc,
                            seen, announced>>
           ELSE IF line.kind = "info"
           THEN /\ ParseValidatorInfo(line, v_group)
                /\ UNCHANGED <<slots, collated, votes, slot_leaders, events,
                               seen, announced>>
           ELSE /\ ProcessLogLine(line, v_group, t_ms)
                /\ UNCHANGED <<v_groups, v_weights, total_weights>>

\* parse() is inside its loops, with a line left to read
CanRead(max) == pc = "parsing" /\ n_lines < max

\* a faulty variant: the registries of the previous file are kept
NextFileKeepsRegistries ==
    /\ pc = "parsing"
    /\ file_no < MaxFiles
    /\ file_no' = file_no + 1
    /\ UNCHANGED <<slots, collated, votes, total_weights, slot_leaders,
                   events, v_groups, v_weights, pc, n_lines, seen, announced,
                   returned, logs, figure>>

\* the loop over self.logs_path moves to the next file: fresh registries
NextFile ==
    /\ pc = "parsing"
    /\ file_no < MaxFiles
    /\ file_no' = file_no + 1
    /\ v_groups' = EmptyDict
    /\ v_weights' = EmptyDict
    /\ UNCHANGED <<slots, collated, votes, total_weights, slot_leaders,
                   events, pc, n_lines, seen, announced, returned, logs, figure>>

\* ParserLogs.__init__, and parse() about to read its first file
Init ==
    /\ slots = <<>>
    /\ collated = EmptyDict
    /\ votes = EmptyDict
    /\ total_weights = EmptyDict
    /\ slot_leaders = EmptyDict
    /\ events = <<>>
    /\ v_groups = EmptyDict
    /\ v_weights = EmptyDict
    /\ pc = "parsing"
    /\ file_no = 1
    /\ n_lines = 0
    /\ seen = EmptyBag
    /\ announced = <<>>
    /\ returned = <<>>
    /\ logs = <<>>
    /\ figure = <<>>

----------------------------------------------------------------------------
(* The slot registry and the leader windows: every category of line, two   *)
(* validators, two slots                                                    *)

Lines ==
    {InfoLine("mc.0", 1, 1, 3, 10), InfoLine("mc.0", 2, 2, 3, 10)}
    \cup {TargetLine("mc.0", tg, s, t) :
            tg \in {"CollateStarted", "FinalObserved", "Other"},
            s \in {5, 6}, t \in {10, 20}}
    \cup {SkipLine("mc.0", s, t) : s \in {5, 6}, t \in {10, 20}}
    \cup {VoteLine("mc.0", 5, "NotarizeVote", 20)}
    \cup {LeaderLine("mc.0", 5, 7, 10), LeaderLine("mc.0", 6, 7, 10),
          LeaderLine("mc.0", 6, 6, 10)}

ValidatorInfo ==
    /\ CanRead(MaxLines)
    /\ \E line \in Lines : line.kind = "info" /\ LoopBody(line)

StatsTargetReached ==
    /\ CanRead(MaxLines)
    /\ \E line \in Lines : line.kind = "target" /\ LoopBody(line)

SkipVote ==
    /\ CanRead(MaxLines)
    /\ \E line \in Lines : line.kind = "skip" /\ LoopBody(line)

PublishEvent ==
    /\ CanRead(MaxLines)
    /\ \E line \in Lines : line.kind \in {"vote", "leader"} /\ LoopBody(line)

Next ==
    \/ ValidatorInfo
    \/ StatsTargetReached
    \/ SkipVote
    \/ PublishEvent
    \/ NextFile
    \/ InferSlotEvents

Spec == Init /\ [][Next]_vars

----------------------------------------------------------------------------
(* The causal chain collate -> notarize -> finalize of one slot: deeper     *)
(* runs over the collation markers and the votes                            *)

ChainLines ==
    {InfoLine("mc.0", 1, 1, 1, 0), InfoLine("mc.0", 2, 1, 2, 0)}
    \cup {TargetLine("mc.0", tg, 5, t) :
            tg \in {"CollateStarted", "CollateFinished"}, t \in {0, 50}}
    \cup {VoteLine("mc.0", 5, "NotarizeVote", t) : t \in {50, 100}}
    \cup {VoteLine("mc.0", 5, "FinalizeVote", 100)}

ChainValidatorInfo ==
    /\ CanRead(MaxChainLines)
    /\ \E line \in ChainLines : line.kind = "info" /\ LoopBody(line)

ChainTargetReached ==
    /\ CanRead(MaxChainLines)
    /\ \E line \in ChainLines : line.kind = "target" /\ LoopBody(line)

ChainPublishEvent ==
    /\ CanRead(MaxChainLines)
    /\ \E line \in ChainLines : line.kind = "vote" /\ LoopBody(line)

ChainNext ==
    \/ ChainValidatorInfo
    \/ ChainTargetReached
    \/ ChainPublishEvent
    \/ NextFile
    \/ InferSlotEvents

ChainSpec == Init /\ [][ChainNext]_vars

----------------------------------------------------------------------------
(* The quorum evaluation on its own: the parser has read, for slot 5 of    *)
(* "mc.0", a CollateStarted line at 0, a CollateFinished line at 50 and a  *)
(* list of NotarizeVote and FinalizeVote lines drawn from QuorumVotePool,  *)
(* each sent by a validator registered with its weight; the valgroup's     *)
(* total weight is drawn from QuorumTotals.  The inference pass then runs. *)

QuorumTotals == {1, 4, 9, 10}

\* <<validator id, own weight>>
QuorumValidators == {<<1, 3>>, <<2, 2>>, <<3, 3>>}

QuorumVotePool ==
    {VoteData("NotarizeVote", t, vw[1], vw[2]) :
        t \in {100, 150, 200}, vw \in QuorumValidators}
    \cup {VoteData("FinalizeVote", 250, vw[1], vw[2]) : vw \in QuorumValidators}

SeqsUpTo(S, n) == UNION {[1..k -> S] : k \in 0..n}

RECURSIVE AppendVotes(_, _, _)
AppendVotes(vt, slot_id, vs) ==
    IF vs = <<>>
    THEN vt
    ELSE AppendVote(AppendVotes(vt, slot_id, SubSeq(vs, 1, Len(vs) - 1)),
                    slot_id, vs[Len(vs)].vote, vs[Len(vs)])

RECURSIVE BagOfVotes(_)
BagOfVotes(vs) ==
    IF vs = <<>>
    THEN EmptyBag
    ELSE BagOfVotes(SubSeq(vs, 1, Len(vs) - 1))
         (+) SetToBag({[v_group |-> "mc.0", slot |-> 5, kind |-> "vote",
                        t_ms |-> vs[Len(vs)].t_ms]})

QuorumInit ==
    \E total \in QuorumTotals, vs \in SeqsUpTo(QuorumVotePool, MaxVotes) :
        /\ slots = TargetSlotCollator(
                      TargetSlotCreate(<<>>, "mc.0", 5, 0),
                      <<"mc.0", 5>>, "CollateStarted", 1)
        /\ collated = TargetCollated(
                         TargetCollated(EmptyDict, "CollateStarted",
                                        "mc.0", 5, 0, 1),
                         "CollateFinished", "mc.0", 5, 50, 1)
        /\ events = TargetEvents(
                       TargetEvents(<<>>, EmptyDict, "CollateStarted",
                                    "mc.0", 5, 0, 1),
                       EmptyDict, "CollateFinished", "mc.0", 5, 50, 1)
        /\ votes = AppendVotes(EmptyDict, <<"mc.0", 5>>, vs)
        /\ total_weights = Put(EmptyDict, "mc.0", total)
        /\ slot_leaders = EmptyDict
        /\ v_groups = Put(EmptyDict, "mc.0",
                          IF vs = <<>> THEN 1 ELSE vs[Len(vs)].v_id)
        /\ v_weights = Put(EmptyDict, "mc.0",
                           IF vs = <<>> THEN 3 ELSE vs[Len(vs)].weight)
        /\ pc = "parsing"
        /\ file_no = 1
        /\ n_lines = 3 + 2 * Len(vs)
        /\ seen = SetToBag({[v_group |-> "mc.0", slot |-> 5,
                             kind |-> "target", t_ms |-> t] : t \in {0, 50}})
                  (+) BagOfVotes(vs)
        /\ announced = <<>>
        /\ returned = <<>>
        /\ logs = <<>>
        /\ figure = <<>>

QuorumNext == InferSlotEvents

QuorumSpec == QuorumInit /\ [][QuorumNext]_vars

----------------------------------------------------------------------------
(* The files fixed in advance: self.logs_path names two files, each a list *)
(* of at most MaxFileLen lines of LogLines, and parse() reads them in      *)
(* order, line by line.                                                    *)

MaxFileLen == 2

LogLines ==
    {InfoLine("mc.0", 1, 1, 3, 0), InfoLine("mc.0", 2, 1, 3, 0)}
    \cup {TargetLine("mc.0", "CollateStarted", 5, t) : t \in {10, 20}}
    \cup {SkipLine("mc.0", 5, 10)}

LogFiles == SeqsUpTo(LogLines, MaxFileLen)

\* the number of lines in the files that come before file f
RECURSIVE LinesBefore(_, _)
LinesBefore(files, f) ==
    IF f <= 1 THEN 0 ELSE LinesBefore(files, f - 1) + Len(files[f - 1])

\* the position, in the file being read, of the next line
LinePos == n_lines - LinesBefore(logs, file_no) + 1

\* ParserLogs(logs_path) is constructed and parse() is about to read
NewParser(files) ==
    /\ slots = <<>>
    /\ collated = EmptyDict
    /\ votes = EmptyDict
    /\ total_weights = EmptyDict
    /\ slot_leaders = EmptyDict
    /\ events = <<>>
    /\ v_groups = EmptyDict
    /\ v_weights = EmptyDict
    /\ pc = "parsing"
    /\ file_no = 1
    /\ n_lines = 0
    /\ seen = EmptyBag
    /\ announced = <<>>
    /\ returned = <<>>
    /\ logs = files
    /\ figure = <<>>

LogsInit == \E a \in LogFiles, b \in LogFiles : NewParser(<<a, b>>)

\* for line in data: the next line of the file
ReadLogLine ==
    /\ pc = "parsing"
    /\ LinePos <= Len(logs[file_no])
    /\ LoopBody(logs[file_no][LinePos])

\* for log_file in self.logs_path: the file is exhausted, the next one is read
NextLogFile ==
    /\ LinePos > Len(logs[file_no])
    /\ file_no < Len(logs)
    /\ NextFile

\* the last file is exhausted: the inference pass, and parse() returns
InferAtEnd ==
    /\ LinePos > Len(logs[file_no])
    /\ file_no = Len(logs)
    /\ InferSlotEvents

Reverse(s) == [i \in 1..Len(s) |-> s[Len(s) + 1 - i]]

\* after parse() has returned, a second ParserLogs is constructed on the same
\* files in the opposite order, and its parse() is about to read
ParseReversed ==
    /\ pc = "done"
    /\ Len(returned) = 1
    /\ slots' = <<>>
    /\ collated' = EmptyDict
    /\ votes' = EmptyDict
    /\ total_weights' = EmptyDict
    /\ slot_leaders' = EmptyDict
    /\ events' = <<>>
    /\ v_groups' = EmptyDict
    /\ v_weights' = EmptyDict
    /\ pc' = "parsing"
    /\ file_no' = 1
    /\ n_lines' = 0
    /\ seen' = EmptyBag
    /\ announced' = <<>>
    /\ logs' = Reverse(logs)
    /\ UNCHANGED <<returned, figure>>

OrderNext ==
    \/ ReadLogLine
    \/ NextLogFile
    \/ InferAtEnd
    \/ ParseReversed

OrderSpec == LogsInit /\ [][OrderNext]_vars

\* after parse() has returned, it is called again on the same ParserLogs:
\* the same files are about to be read again, into the same collections
ParseAgain ==
    /\ pc = "done"
    /\ Len(returned) = 1
    /\ pc' = "parsing"
    /\ file_no' = 1
    /\ n_lines' = 0
    /\ v_groups' = EmptyDict
    /\ v_weights' = EmptyDict
    /\ UNCHANGED <<slots, collated, votes, total_weights, slot_leaders,
                   events, seen, announced, returned, logs, figure>>

ReparseNext ==
    \/ ReadLogLine
    \/ NextLogFile
    \/ InferAtEnd
    \/ ParseAgain

ReparseSpec == LogsInit /\ [][ReparseNext]_vars

\* the k-th returned ConsensusData as it reads now: its events list is
\* self.events itself, and its slots list holds the SlotData objects that
\* self.slots held, in order, when it was built
SnapshotNow(k) ==
    ConsensusData(SubSeq(slots, 1, Len(returned[k].slots)), events)

----------------------------------------------------------------------------
(* The input streams as they come: two valgroups, lines of every category, *)
(* lines of a category with a sub-field missing, a published SkipVote      *)
(* broadcast, leader windows that are empty or overlap, and lines without  *)
(* timestamp, without valgroup or without category keyword                 *)

MaxStreamLines == 5

\* a line that carries the keyword of its category and lacks a sub-field
Malformed(line) == [line EXCEPT !.ok = FALSE]

\* a 'Published event' line that contains BroadcastVote and SkipVote
PublishedSkipVoteLine(v_group, t_ms) ==
    [kind |-> "published", v_group |-> v_group, t_ms |-> t_ms, ok |-> TRUE]

\* a line that carries none of the category keywords
OtherLine(v_group, t_ms) ==
    [kind |-> "other", v_group |-> v_group, t_ms |-> t_ms, ok |-> TRUE]

\* the line without its timestamp token, and without its valgroup token
WithoutTimestamp(line) == [line EXCEPT !.t_ms = None]

WithoutValgroup(line) == [line EXCEPT !.v_group = NoValgroup]

\* an identity line on which only the first n of the three patterns match
PartialInfoLine(line, n) == [line EXCEPT !.matched = n]

WellFormedLines(v_group) ==
    {TargetLine(v_group, "CollateStarted", 5, 20), SkipLine(v_group, 5, 10),
     VoteLine(v_group, 5, "NotarizeVote", 20),
     VoteLine(v_group, 5, "FinalizeVote", 30), LeaderLine(v_group, 5, 7, 10)}

StreamLines ==
    {InfoLine("mc.0", 1, 2, 3, 10), InfoLine("mc.0", 3, 1, 3, 10),
     InfoLine("mc.1", 2, 1, 3, 10)}
    \cup WellFormedLines("mc.0") \cup WellFormedLines("mc.1")
    \cup {Malformed(line) : line \in WellFormedLines("mc.0")}
    \cup {PublishedSkipVoteLine("mc.0", 10)}
    \cup {LeaderLine("mc.0", 6, 6, 10), LeaderLine("mc.0", 7, 5, 10),
          LeaderLine("mc.1", 6, 8, 10)}
    \cup {OtherLine("mc.0", 10)}
    \cup {WithoutTimestamp(line) : line \in
             {InfoLine("mc.0", 1, 2, 3, 10),
              TargetLine("mc.0", "CollateStarted", 5, 20),
              Malformed(SkipLine("mc.0", 5, 10))}}
    \cup {WithoutValgroup(line) : line \in
             {InfoLine("mc.0", 1, 2, 3, 10),
              TargetLine("mc.0", "CollateStarted", 5, 20),
              Malformed(SkipLine("mc.0", 5, 10))}}
    \cup {PartialInfoLine(InfoLine("mc.1", 2, 1, 3, 10), n) : n \in {1, 2}}

StreamValidatorInfo ==
    /\ CanRead(MaxStreamLines)
    /\ \E line \in StreamLines : line.kind = "info" /\ LoopBody(line)

StreamTargetReached ==
    /\ CanRead(MaxStreamLines)
    /\ \E line \in StreamLines : line.kind = "target" /\ LoopBody(line)

StreamSkipVote ==
    /\ CanRead(MaxStreamLines)
    /\ \E line \in StreamLines : line.kind = "skip" /\ LoopBody(line)

StreamPublishEvent ==
    /\ CanRead(MaxStreamLines)
    /\ \E line \in StreamLines :
          line.kind \in {"vote", "leader", "published"} /\ LoopBody(line)

StreamOtherLine ==
    /\ CanRead(MaxStreamLines)
    /\ \E line \in StreamLines : line.kind = "other" /\ LoopBody(line)

StreamNext ==
    \/ StreamValidatorInfo
    \/ StreamTargetReached
    \/ StreamSkipVote
    \/ StreamPublishEvent
    \/ StreamOtherLine
    \/ NextFile
    \/ InferSlotEvents

StreamSpec == Init /\ [][StreamNext]_vars

----------------------------------------------------------------------------
(* The target-reached lines: every transition name of TARGET_TO_LABEL and  *)
(* one that is not in it, for one slot, with a skip certificate and the    *)
(* leader window of the next slot                                          *)

MaxTargetLines == 4

TargetNames ==
    {"CandidateReceived", "CollateStarted", "CollateFinished",
     "ValidateStarted", "ValidateFinished", "NotarObserved", "FinalObserved"}

TargetLines ==
    {InfoLine("mc.0", 1, 2, 3, 10)}
    \cup {TargetLine("mc.0", tg, 5, 20) : tg \in TargetNames \cup {"Other"}}
    \cup {TargetLine("mc.0", "FinalObserved", 5, 10),
          TargetLine("mc.0", "Other", 5, 10)}
    \cup {SkipLine("mc.0", 5, 10), LeaderLine("mc.0", 6, 7, 10)}

TargetReadInfo ==
    /\ CanRead(MaxTargetLines)
    /\ \E line \in TargetLines : line.kind = "info" /\ LoopBody(line)

TargetReadTarget ==
    /\ CanRead(MaxTargetLines)
    /\ \E line \in TargetLines : line.kind = "target" /\ LoopBody(line)

TargetReadOther ==
    /\ CanRead(MaxTargetLines)
    /\ \E line \in TargetLines :
          line.kind \in {"skip", "leader"} /\ LoopBody(line)

TargetNext ==
    \/ TargetReadInfo
    \/ TargetReadTarget
    \/ TargetReadOther
    \/ NextFile
    \/ InferSlotEvents

TargetSpec == Init /\ [][TargetNext]_vars

----------------------------------------------------------------------------
(* figure_builder.py: DataFilter and FigureBuilder.build_summary, called    *)
(* on the ConsensusData that parse() returned.  An optional argument is     *)
(* <<>> when it is None and <<x>> when it is x.                             *)

MaxSummaryLines == 4

\* DataFilter.filter_slots
FilterSlots(data, valgroup_id, slot_from, slot_to, show_empty) ==
    SelectSeq(data.slots,
              LAMBDA s : /\ s.valgroup_id = valgroup_id
                         /\ slot_from <= s.slot
                         /\ s.slot <= slot_to
                         /\ (show_empty \/ ~s.is_empty))

\* the truth value Python gives an optional string, and an optional set
TruthyStr(o) == o # <<>> /\ o[1] # ""

TruthySet(o) == o # <<>> /\ o[1] # {}

\* DataFilter.filter_events: the conditions under which an event is kept
KeepsEvent(e, valgroup_id, slot, slots_in, labels, kinds, has_validator) ==
    /\ ~(TruthyStr(valgroup_id) /\ e.valgroup_id # valgroup_id[1])
    /\ ~(slot # <<>> /\ e.slot # slot[1])
    /\ ~(TruthySet(slots_in) /\ e.slot \notin slots_in[1])
    /\ ~(TruthySet(labels) /\ e.label \notin labels[1])
    /\ ~(TruthySet(kinds) /\ e.kind \notin kinds[1])
    /\ ~(has_validator # <<>> /\ has_validator[1] /\ e.validator = None)
    /\ ~(has_validator # <<>> /\ ~has_validator[1] /\ e.validator # None)

FilterEvents(data, valgroup_id, slot, slots_in, labels, kinds, has_validator) ==
    SelectSeq(data.events,
              LAMBDA e : KeepsEvent(e, valgroup_id, slot, slots_in, labels,
                                    kinds, has_validator))

\* FigureBuilder.build_summary, up to the call of SummaryFigureBuilder.build;
\* show_empty is kept with the result as history
BuildSummary(data, valgroup_id, slot_from, slot_to, show_empty) ==
    LET shown == FilterSlots(data, valgroup_id, slot_from, slot_to, show_empty)
        slot_set == {shown[i].slot : i \in 1..Len(shown)}
        segments == FilterEvents(data, <<valgroup_id>>, <<>>, <<slot_set>>,
                                 <<>>, <<{"phase"}>>, <<>>)
        markers == FilterEvents(data, <<valgroup_id>>, <<>>, <<slot_set>>,
                       <<{"slot_start_est",
                          "finalize_observed_by_next_leader"}>>, <<>>, <<>>)
    IN  [valgroup_id |-> valgroup_id, slot_from |-> slot_from,
         slot_to |-> slot_to, show_empty |-> show_empty,
         segments |-> segments, markers |-> markers]

SummaryLines ==
    {InfoLine("mc.0", 1, 1, 1, 0)}
    \cup {TargetLine("mc.0", "CollateStarted", s, 10) : s \in {5, 6}}
    \cup {TargetLine("mc.0", "CollateFinished", 5, 20)}
    \cup {SkipLine("mc.0", s, 30) : s \in {5, 6}}

SummaryValgroups == {"mc.0", "mc.1"}

SummarySlots == {5, 6, 7}

SummaryReadInfo ==
    /\ CanRead(MaxSummaryLines)
    /\ \E line \in SummaryLines : line.kind = "info" /\ LoopBody(line)

SummaryReadTarget ==
    /\ CanRead(MaxSummaryLines)
    /\ \E line \in SummaryLines : line.kind = "target" /\ LoopBody(line)

SummaryReadSkip ==
    /\ CanRead(MaxSummaryLines)
    /\ \E line \in SummaryLines : line.kind = "skip" /\ LoopBody(line)

\* the application builds the summary figure of the data parse() returned;
\* the result does not depend on an earlier call, so one call is followed
SummaryBuild ==
    /\ pc = "done"
    /\ figure = <<>>
    /\ \E valgroup_id \in SummaryValgroups, slot_from \in SummarySlots,
          slot_to \in SummarySlots, show_empty \in BOOLEAN :
          figure' = <<BuildSummary(ConsensusData(slots, events), valgroup_id,
                                   slot_from, slot_to, show_empty)>>
    /\ UNCHANGED <<slots, collated, votes, total_weights, slot_leaders,
                   events, v_groups, v_weights, pc, file_no, n_lines, seen,
                   announced, returned, logs>>

SummaryNext ==
    \/ SummaryReadInfo
    \/ SummaryReadTarget
    \/ SummaryReadSkip
    \/ NextFile
    \/ InferSlotEvents
    \/ SummaryBuild

SummarySpec == Init /\ [][SummaryNext]_vars

----------------------------------------------------------------------------
(* Two files fixed in advance, with lines of every category of one          *)
(* valgroup: what a line does depends on the lines before it in its file    *)

FileLines == {InfoLine("mc.0", 1, 2, 3, 0)} \cup WellFormedLines("mc.0")

FilesInit ==
    \E a \in SeqsUpTo(FileLines, MaxFileLen),
       b \in SeqsUpTo(FileLines, MaxFileLen) : NewParser(<<a, b>>)

FilesNext ==
    \/ ReadLogLine
    \/ NextLogFile
    \/ InferAtEnd

FilesSpec == FilesInit /\ [][FilesNext]_vars

----------------------------------------------------------------------------
(* Vocabulary of the properties *)

\* the positions in self.events of the events of a slot with a label and kind
EventIdx(v_group, slot, label, kind) ==
    {i \in 1..Len(events) :
        /\ events[i].valgroup_id = v_group
        /\ events[i].slot = slot
        /\ events[i].label = label
        /\ events[i].kind = kind}

VotesOf(slot_id, vote) ==
    IF HasVotes(votes, slot_id, vote) THEN votes[slot_id][vote] ELSE <<>>

\* the weight of the votes of vs cast at or before t
RECURSIVE WeightUpTo(_, _)
WeightUpTo(vs, t) ==
    IF vs = <<>>
    THEN 0
    ELSE WeightUpTo(Tail(vs), t)
         + (IF Head(vs).t_ms <= t THEN Head(vs).weight ELSE 0)

VoteTimes(vs) == {vs[i].t_ms : i \in 1..Len(vs)}

SetMin(S) == CHOOSE x \in S : \A y \in S : x <= y

\* floor(2 * N / 3) + 1, by its arithmetic characterisation
TwoThirdsPlusOne(N) ==
    CHOOSE T \in 0..(N + 1) : 3 * (T - 1) <= 2 * N /\ 2 * N < 3 * T

MaxWeight == 12

QSlot == <<"mc.0", 5>>

ScenarioAVotes ==
    <<VoteData("NotarizeVote", 100, 1, 3), VoteData("NotarizeVote", 150, 2, 2),
      VoteData("NotarizeVote", 200, 3, 3)>>

----------------------------------------------------------------------------
SetMax(S) == CHOOSE x \in S : \A y \in S : x >= y

\* the (valgroup, slot) keys that occur in the registry, the events or the lines
SlotIds ==
    {<<slots[i].valgroup_id, slots[i].slot>> : i \in 1..Len(slots)}
    \cup {<<events[i].valgroup_id, events[i].slot>> : i \in 1..Len(events)}
    \cup {<<l.v_group, l.slot>> : l \in BagToSet(seen)}

\* the lines of the given kinds that reached their handler for a slot
LinesOf(slot_id, kinds) ==
    {l \in BagToSet(seen) :
        <<l.v_group, l.slot>> = slot_id /\ l.kind \in kinds}

\* C1: in the snapshot, the start estimate of every Slot is the minimum
\* timestamp over the target-reached and skip-vote-certificate lines that
\* were processed for it.
C1_StartEstimateIsMinOverLines ==
    pc = "done" =>
        \A i \in 1..Len(slots) :
            LET touched == LinesOf(<<slots[i].valgroup_id, slots[i].slot>>,
                                   {"target", "skip"})
            IN  /\ touched # {}
                /\ slots[i].slot_start_est_ms
                      = SetMin({l.t_ms : l \in touched})

\* C2: a finalize phase of a slot exists only if a notarize phase of the slot
\* exists, and a notarize phase exists only if a collate_started and a
\* collate_finished local event were recorded for the slot.
C2_PhaseChain ==
    \A id \in SlotIds :
        /\ EventIdx(id[1], id[2], "finalize", "phase") # {} =>
              EventIdx(id[1], id[2], "notarize", "phase") # {}
        /\ EventIdx(id[1], id[2], "notarize", "phase") # {} =>
              /\ EventIdx(id[1], id[2], "collate_started", "local") # {}
              /\ EventIdx(id[1], id[2], "collate_finished", "local") # {}

\* a snapshot with the whole chain: a finalize phase for slot 5
C2_Witness ==
    /\ pc = "done"
    /\ EventIdx("mc.0", 5, "finalize", "phase") # {}
    /\ EventIdx("mc.0", 5, "notarize", "phase") # {}

\* C3: a Slot that is empty stays in the registry and stays empty, whatever
\* line is processed next.
C3_IsEmptyMonotone ==
    [][\A i \in 1..Len(slots) :
          slots[i].is_empty =>
              /\ HasSlot(slots', <<slots[i].valgroup_id, slots[i].slot>>)
              /\ SlotOf(slots', <<slots[i].valgroup_id, slots[i].slot>>).is_empty
      ]_vars

\* an empty Slot for which a target-reached line was processed after the skip
\* certificate
C3_Witness ==
    \E k \in 1..Len(slots) :
        /\ slots[k].is_empty
        /\ \E i \in 1..Len(events) : \E j \in (i + 1)..Len(events) :
              /\ events[i].label = "skip_observed"
              /\ events[j].kind = "local"
              /\ events[j].label # "skip_observed"
              /\ <<events[i].valgroup_id, events[i].slot>>
                    = <<slots[k].valgroup_id, slots[k].slot>>
              /\ <<events[j].valgroup_id, events[j].slot>>
                    = <<slots[k].valgroup_id, slots[k].slot>>

\* C4: the quorum crossing is the timestamp of the first vote, in ascending
\* timestamp order, at which the cumulative weight reaches the threshold:
\* the least vote time t such that the votes cast up to t weigh at least the
\* threshold.  When there is one, exactly one notarize_reached event at t and
\* one notarize phase [collate_end, t] are emitted; otherwise none.  For total
\* weight 10 and votes (100, 3), (150, 2), (200, 3) the crossing is 200.
C4_CrossingIsFirstVoteReachingThreshold ==
    pc = "done" =>
        LET vs == VotesOf(QSlot, "NotarizeVote")
            T == TwoThirdsPlusOne(total_weights["mc.0"])
            crossing == {t \in VoteTimes(vs) : WeightUpTo(vs, t) >= T}
            reached == EventIdx("mc.0", 5, "notarize_reached", "reached")
            phase == EventIdx("mc.0", 5, "notarize", "phase")
        IN  /\ crossing = {} => reached = {} /\ phase = {}
            /\ crossing # {} =>
                 /\ Cardinality(reached) = 1
                 /\ Cardinality(phase) = 1
                 /\ \A i \in reached :
                       events[i] = EventData("mc.0", 5, "notarize_reached",
                                      "reached", SetMin(crossing), None, None)
                 /\ \A i \in phase :
                       events[i] = EventData("mc.0", 5, "notarize", "phase",
                                      50, None, SetMin(crossing))
            /\ (total_weights["mc.0"] = 10 /\ vs = ScenarioAVotes) =>
                 /\ \E i \in reached : events[i].t_ms = 200
                 /\ \E i \in phase :
                       events[i].t_ms = 50 /\ events[i].t1_ms = 200

C4_Witness ==
    /\ pc = "done"
    /\ total_weights["mc.0"] = 10
    /\ VotesOf(QSlot, "NotarizeVote") = ScenarioAVotes
    /\ \E i \in EventIdx("mc.0", 5, "notarize_reached", "reached") :
          events[i].t_ms = 200

\* C5: the threshold of a valgroup of total weight N is floor(2 * N / 3) + 1:
\* 7 for N = 10, 7 for N = 9, 1 for N = 1; and the inference pass reports a
\* notarize crossing exactly when the recorded votes weigh that much.
C5_ThresholdIsTwoThirdsPlusOne ==
    /\ \A N \in 0..MaxWeight :
          /\ 3 * (ThresholdOf(N) - 1) <= 2 * N
          /\ 2 * N < 3 * ThresholdOf(N)
    /\ ThresholdOf(10) = 7
    /\ ThresholdOf(9) = 7
    /\ ThresholdOf(1) = 1
    /\ pc = "done" =>
          LET vs == VotesOf(QSlot, "NotarizeVote")
              N == total_weights["mc.0"]
              all == WeightUpTo(vs, 200)
          IN  (EventIdx("mc.0", 5, "notarize_reached", "reached") # {})
                <=> (all >= TwoThirdsPlusOne(N))

\* total weight 10, the votes weigh exactly 7 and the crossing is reported
C5_Witness ==
    /\ pc = "done"
    /\ total_weights["mc.0"] = 10
    /\ WeightUpTo(VotesOf(QSlot, "NotarizeVote"), 200) = 7
    /\ EventIdx("mc.0", 5, "notarize_reached", "reached") # {}

\* the crossing _process_vote_threshold returns for the recorded notarize
\* votes under total weight N
CrossingUnder(N) ==
    ProcessVoteThreshold(slots[1], VotesOf(QSlot, "NotarizeVote"),
                         ThresholdOf(N), "notarize", 50).ret

\* C6: for the recorded votes and total weights N1 <= N2, a crossing under N2
\* at t2 means a crossing under N1 at some t1 <= t2, and no crossing under N1
\* means no crossing under N2.
C6_CrossingMonotoneInTotalWeight ==
    LET crossing == {<<N, CrossingUnder(N)>> : N \in 0..MaxWeight}
    IN  \A p1 \in crossing : \A p2 \in crossing :
            p1[1] <= p2[1] =>
                /\ p2[2] # None => p1[2] # None /\ p1[2] <= p2[2]
                /\ p1[2] = None => p2[2] = None

\* the pass has run under total weight 10 and crossed at 200; under total
\* weight 1 the same votes cross at 100
C6_Witness ==
    /\ pc = "done"
    /\ total_weights["mc.0"] = 10
    /\ \E i \in EventIdx("mc.0", 5, "notarize_reached", "reached") :
          events[i].t_ms = 200
    /\ CrossingUnder(10) = 200
    /\ CrossingUnder(1) = 100

\* the applied announcements whose range [start_slot, end_slot) covers a slot
Covering(slot_id) ==
    {i \in 1..Len(announced) :
        /\ announced[i].v_group = slot_id[1]
        /\ announced[i].start_slot <= slot_id[2]
        /\ slot_id[2] < announced[i].end_slot}

\* C7: the leader recorded for a slot is the validator of the last applied
\* announcement that covers the slot, and no leader is recorded when no
\* applied announcement covers it.
C7_LeaderIsLastCoveringAnnouncement ==
    \A id \in (DOMAIN slot_leaders)
              \cup {<<announced[i].v_group, s>> :
                      i \in 1..Len(announced), s \in 4..8} :
        IF Covering(id) = {}
        THEN ~HasKey(slot_leaders, id)
        ELSE /\ HasKey(slot_leaders, id)
             /\ slot_leaders[id] = announced[SetMax(Covering(id))].v_id

\* two validators announced windows that both cover slot 6; slot 5 is
\* covered by the first only
C7_Witness ==
    /\ Len(announced) = 2
    /\ announced[1].v_id # announced[2].v_id
    /\ Covering(<<"mc.0", 6>>) = {1, 2}
    /\ Covering(<<"mc.0", 5>>) = {1}
    /\ slot_leaders[<<"mc.0", 6>>] = announced[2].v_id
    /\ slot_leaders[<<"mc.0", 5>>] = announced[1].v_id

\* the extra event of the next leader, for a finalize_observed local event
ObservedByNextLeader(e) ==
    EventData(e.valgroup_id, e.slot, "finalize_observed_by_next_leader",
              "observed", e.t_ms, None, None)

\* C8: a step that appends a finalize_observed local event e of validator V
\* (the processing of a FinalObserved line) appends before it one
\* finalize_observed_by_next_leader event of kind observed, for the same slot
\* and timestamp, when V is recorded as the leader of the next slot, and
\* appends e alone otherwise.
C8_FinalObservedByNextLeader ==
    [][(/\ Len(events') > Len(events)
        /\ events'[Len(events')].label = "finalize_observed"
        /\ events'[Len(events')].kind = "local")
       => LET e == events'[Len(events')]
              next == <<e.valgroup_id, e.slot + 1>>
          IN  /\ e.validator = v_groups[e.valgroup_id]
              /\ IF HasKey(slot_leaders, next)
                    /\ slot_leaders[next] = e.validator
                 THEN events' = events \o <<ObservedByNextLeader(e), e>>
                 ELSE events' = events \o <<e>>
      ]_vars

\* both cases have happened: a finalize_observed event preceded by the next
\* leader's event, and one that is not
C8_Witness ==
    /\ \E i \in 2..Len(events) :
          /\ events[i].label = "finalize_observed"
          /\ events[i - 1] = ObservedByNextLeader(events[i])
    /\ \E i \in 1..Len(events) :
          /\ events[i].label = "finalize_observed"
          /\ i > 1 => events[i - 1].label # "finalize_observed_by_next_leader"

\* C9, as stated: every processed CollateStarted line (timestamp t0) and
\* CollateFinished line (timestamp t1) of a slot give, in the snapshot, one
\* collate phase with t_start = t0 and t_end = t1.
C9_CollatePhaseOfEveryMarkerLine ==
    pc = "done" =>
        \A id \in SlotIds :
            \A i \in EventIdx(id[1], id[2], "collate_started", "local") :
            \A j \in EventIdx(id[1], id[2], "collate_finished", "local") :
                LET phase == EventIdx(id[1], id[2], "collate", "phase")
                IN  /\ Cardinality(phase) = 1
                    /\ \A k \in phase :
                          /\ events[k].t_ms = events[i].t_ms
                          /\ events[k].t1_ms = events[j].t_ms

\* C9, amended: the collator of a Slot is the validator of the last
\* processed CollateStarted line of the slot (None without one); when a
\* CollateStarted and a CollateFinished line were processed for a slot, the
\* snapshot holds one collate phase for it, from the timestamp of the last
\* processed CollateStarted line to that of the last processed
\* CollateFinished line.
C9_CollatePhaseOfLastMarkerLines ==
    /\ \A i \in 1..Len(slots) :
          LET started == EventIdx(slots[i].valgroup_id, slots[i].slot,
                                  "collate_started", "local")
          IN  slots[i].collator =
                 IF started = {} THEN None
                 ELSE events[SetMax(started)].validator
    /\ pc = "done" =>
          \A id \in SlotIds :
              LET started == EventIdx(id[1], id[2], "collate_started", "local")
                  finished == EventIdx(id[1], id[2], "collate_finished", "local")
                  phase == EventIdx(id[1], id[2], "collate", "phase")
              IN  IF started # {} /\ finished # {}
                  THEN /\ Cardinality(phase) = 1
                       /\ \A k \in phase :
                             events[k] = EventData(id[1], id[2], "collate",
                                            "phase",
                                            events[SetMax(started)].t_ms, None,
                                            events[SetMax(finished)].t_ms)
                  ELSE phase = {}

\* a snapshot of a slot with two CollateStarted lines of different
\* timestamps and validators, and a collate phase
C9_Witness ==
    /\ pc = "done"
    /\ \E i, j \in EventIdx("mc.0", 5, "collate_started", "local") :
          /\ i < j
          /\ events[i].t_ms # events[j].t_ms
          /\ events[i].validator # events[j].validator
    /\ EventIdx("mc.0", 5, "collate", "phase") # {}

\* the only line processed for the slot is one skip-vote-certificate line
LoneSkipLine(id) ==
    /\ Cardinality(LinesOf(id, {"target", "skip", "vote"})) = 1
    /\ \A l \in LinesOf(id, {"target", "skip", "vote"}) :
          l.kind = "skip" /\ CopiesIn(l, seen) = 1

\* C10: when the only line processed for a slot is a single
\* skip-vote-certificate line, the snapshot holds an empty Slot for it, exactly
\* one skip_observed event and no collate, notarize or finalize phase.
C10_LoneSkipLine ==
    pc = "done" =>
        \A id \in SlotIds :
            LoneSkipLine(id) =>
                /\ HasSlot(slots, id)
                /\ SlotOf(slots, id).is_empty
                /\ Cardinality(EventIdx(id[1], id[2], "skip_observed",
                                        "local")) = 1
                /\ \A label \in {"collate", "notarize", "finalize"} :
                      EventIdx(id[1], id[2], label, "phase") = {}

\* a snapshot where slot 6 has its lone skip line and slot 5 has other lines
C10_Witness ==
    /\ pc = "done"
    /\ LoneSkipLine(<<"mc.0", 6>>)
    /\ LinesOf(<<"mc.0", 5>>, {"target", "vote"}) # {}
    /\ EventIdx("mc.0", 6, "skip_observed", "local") # {}

\* the elements of a sequence, and the multiset of its elements
Range(q) == {q[i] : i \in 1..Len(q)}

BagOfSeq(q) == [e \in Range(q) |-> Cardinality({i \in 1..Len(q) : q[i] = e})]

\* C11: the snapshot does not depend on the order of the files: parsing the
\* same two files in the two possible orders returns the same set of Slots,
\* field by field, and the same multiset of Events.
C11_FileOrderIndependent ==
    Len(returned) = 2 =>
        /\ Range(returned[1].slots) = Range(returned[2].slots)
        /\ BagOfSeq(returned[1].events) = BagOfSeq(returned[2].events)

\* the file being read has registered a validator for the valgroup of the line
Registered(line) == HasKey(v_groups, line.v_group)

\* C12: a line of a registered valgroup that carries the keyword of a category
\* (target-reached, skip certificate, vote broadcast, leader window) and lacks
\* a sub-field of the category is fatal: the step that processes it raises.
C12_MalformedLineIsFatal ==
    [][\A line \in StreamLines :
          (/\ line.kind \in {"target", "skip", "vote", "leader"}
           /\ ~line.ok
           /\ pc = "parsing"
           /\ Registered(line)
           /\ LoopBody(line))
          => pc' = "error"
      ]_vars

\* an identity line of the valgroup was read earlier in the file being read
IdentifiedInFile(v_group) ==
    \E k \in 1..(LinePos - 1) :
        logs[file_no][k].kind = "info" /\ logs[file_no][k].v_group = v_group

\* C13: a step that reads a target-reached, skip, vote or leader-window line
\* of a valgroup with no identity line earlier in the same file changes no
\* slot, vote, leader, collation marker or event and raises no error, whatever
\* the files read before registered.
C13_UnregisteredLineIsDropped ==
    [][(/\ pc = "parsing"
        /\ n_lines' = n_lines + 1
        /\ logs[file_no][LinePos].kind # "info"
        /\ ~IdentifiedInFile(logs[file_no][LinePos].v_group))
       => UNCHANGED <<slots, collated, votes, slot_leaders, events,
                      total_weights, pc>>
      ]_vars

\* the first file registered validator 1 and had a line processed; the second
\* file starts with a line of the same valgroup, which has been read and
\* dropped
C13_Witness ==
    /\ pc = "parsing"
    /\ file_no = 2
    /\ LinePos = 2
    /\ Len(logs[1]) = 2
    /\ logs[1][1].kind = "info"
    /\ logs[1][2].kind = "skip"
    /\ logs[2][1].kind \in {"target", "skip", "vote", "leader"}
    /\ Len(slots) = 1
    /\ Len(events) = 1
    /\ votes = EmptyDict
    /\ slot_leaders = EmptyDict
    /\ HasKey(total_weights, "mc.0")

\* C14: a returned snapshot is frozen: at any later time, also during and
\* after a second parse() on the same ParserLogs, its Slot list and its Event
\* list read as they did when parse() returned it.
C14_SnapshotIsFrozen ==
    \A k \in 1..Len(returned) : SnapshotNow(k) = returned[k]

\* the positions of the derived events: what the inference pass appends
Derived(evs) ==
    {i \in 1..Len(evs) : evs[i].kind \in {"estimate", "phase", "reached"}}

\* C15: within one parse the inference pass runs after the last line and
\* once: a step that appends derived events starts where there is none and
\* ends the parse, touching nothing but the events; once a derived event is
\* there, no line is read and no slot, vote, leader, collation marker or
\* event changes; and a parse that returns has run the pass, with one
\* start-estimate event for every Slot.
C15_InferenceRunsLastAndOnce ==
    [][/\ Derived(events') # Derived(events) =>
             /\ Derived(events) = {}
             /\ pc = "parsing" /\ pc' # "parsing"
             /\ UNCHANGED <<slots, collated, votes, slot_leaders,
                            total_weights, n_lines, file_no>>
       /\ Derived(events) # {} =>
             UNCHANGED <<slots, collated, votes, slot_leaders, events,
                         total_weights, n_lines, file_no>>
       /\ (pc = "parsing" /\ pc' = "done") =>
             /\ Len(events') = Len(events) + Cardinality(Derived(events'))
             /\ \A i \in 1..Len(slots) :
                   Cardinality(EventIdx(slots[i].valgroup_id, slots[i].slot,
                                        "slot_start_est", "estimate")') = 1
      ]_vars

\* a parse that read lines of two files for two slots and has returned
C15_Witness ==
    /\ pc = "done"
    /\ file_no = 2
    /\ n_lines >= 3
    /\ Len(slots) = 2
    /\ Cardinality(Derived(events)) = 2
    /\ Len(events) > 2

\* the vote kind whose ledger decides a phase label
VoteKindOf(label) ==
    CASE label = "notarize" -> "NotarizeVote"
      [] label = "finalize" -> "FinalizeVote"

\* C16: when _process_vote_threshold finds a crossing at t for label L with
\* phase start p, it returns t and appends the L_reached event (kind reached,
\* t_start = t, no t_end, no validator) and then the L phase event (t_start =
\* p, t_end = t), and nothing when it finds none; in a snapshot, a slot has
\* an L_reached event exactly when it has an L phase, one of each, the phase
\* right after the reached event and ending at its timestamp.
C16_ReachedAndPhaseComeTogether ==
    /\ \A label \in {"notarize", "finalize"} : \A p \in {50, 100} :
          LET r == ProcessVoteThreshold(slots[1],
                      VotesOf(QSlot, VoteKindOf(label)),
                      ThresholdOf(total_weights["mc.0"]), label, p)
          IN  IF r.ret = None
              THEN r.emitted = <<>>
              ELSE /\ r.ret \in VoteTimes(VotesOf(QSlot, VoteKindOf(label)))
                   /\ r.emitted =
                         <<EventData("mc.0", 5, ReachedLabel(label), "reached",
                                     r.ret, None, None),
                           EventData("mc.0", 5, label, "phase", p, None,
                                     r.ret)>>
    /\ pc = "done" =>
          \A label \in {"notarize", "finalize"} :
              LET reached == EventIdx("mc.0", 5, ReachedLabel(label), "reached")
                  phase == EventIdx("mc.0", 5, label, "phase")
              IN  /\ reached = {} <=> phase = {}
                  /\ Cardinality(reached) <= 1
                  /\ Cardinality(phase) <= 1
                  /\ \A i \in reached :
                        /\ phase = {i + 1}
                        /\ events[i].t1_ms = None
                        /\ events[i].validator = None
                        /\ events[i + 1].t1_ms = events[i].t_ms
                        /\ events[i + 1].validator = None

\* a snapshot with a notarize crossing at 100 and a finalize crossing at 250
C16_Witness ==
    /\ pc = "done"
    /\ \E i \in EventIdx("mc.0", 5, "notarize_reached", "reached") :
          events[i].t_ms = 100 /\ events[i + 1].label = "notarize"
    /\ \E i \in EventIdx("mc.0", 5, "finalize_reached", "reached") :
          /\ events[i].t_ms = 250
          /\ events[i + 1] = EventData("mc.0", 5, "finalize", "phase", 100,
                                       None, 250)

\* the weight of all the votes of vs
WeightOf(vs) == IF vs = <<>> THEN 0 ELSE WeightUpTo(vs, SetMax(VoteTimes(vs)))

\* C17: when the notarize votes of a slot weigh less than the threshold, the
\* evaluator returns None for them and the snapshot holds no notarize_reached,
\* notarize, finalize_reached or finalize event for the slot, whatever the
\* finalize votes weigh; and the pass raises no error.
C17_NoNotarizeNoFinalize ==
    /\ pc # "error"
    /\ LET T == TwoThirdsPlusOne(total_weights["mc.0"])
           notarize == VotesOf(QSlot, "NotarizeVote")
       IN  WeightOf(notarize) < T =>
             /\ ProcessVoteThreshold(slots[1], notarize,
                    ThresholdOf(total_weights["mc.0"]), "notarize", 50).ret
                   = None
             /\ pc = "done" =>
                   /\ \A label \in {"notarize", "finalize"} :
                         /\ EventIdx("mc.0", 5, ReachedLabel(label),
                                     "reached") = {}
                         /\ EventIdx("mc.0", 5, label, "phase") = {}
                   /\ Derived(events) =
                         EventIdx("mc.0", 5, "slot_start_est", "estimate")
                         \cup EventIdx("mc.0", 5, "collate", "phase")

\* a snapshot of total weight 4 (threshold 3): the notarize votes weigh 2,
\* the finalize votes weigh 3 or more, and no finalize event was emitted
C17_Witness ==
    /\ pc = "done"
    /\ total_weights["mc.0"] = 4
    /\ WeightOf(VotesOf(QSlot, "NotarizeVote")) = 2
    /\ WeightOf(VotesOf(QSlot, "FinalizeVote")) >= 3
    /\ EventIdx("mc.0", 5, "finalize_reached", "reached") = {}
    /\ EventIdx("mc.0", 5, "collate", "phase") # {}

\* the orders in which n votes can have been inserted
Orders(n) ==
    {f \in [1..n -> 1..n] : \A i, j \in 1..n : f[i] = f[j] => i = j}

Reordered(vs, f) == [i \in 1..Len(vs) |-> vs[f[i]]]

\* C18: the result of _process_vote_threshold does not depend on the order in
\* which the votes were inserted: for the recorded votes of a kind in any
\* order, under the same threshold, it returns the same timestamp (or None)
\* and emits the same events; the snapshot holds the notarize crossing that
\* every order gives.
C18_CrossingIndependentOfInsertionOrder ==
    \A label \in {"notarize", "finalize"} :
        LET vs == VotesOf(QSlot, VoteKindOf(label))
            T == ThresholdOf(total_weights["mc.0"])
            r == ProcessVoteThreshold(slots[1], vs, T, label, 50)
            reached == EventIdx("mc.0", 5, "notarize_reached", "reached")
        IN  /\ \A f \in Orders(Len(vs)) :
                  ProcessVoteThreshold(slots[1], Reordered(vs, f), T, label,
                                       50) = r
            /\ (pc = "done" /\ label = "notarize") =>
                  IF r.ret = None
                  THEN reached = {}
                  ELSE \A i \in reached : events[i] = r.emitted[1]

\* under threshold 3, the votes were inserted with the one cast at 200 first
\* and the one cast at 100, of weight 3, second: the crossing is at 100
C18_Witness ==
    /\ pc = "done"
    /\ total_weights["mc.0"] = 4
    /\ Len(VotesOf(QSlot, "NotarizeVote")) = 3
    /\ VotesOf(QSlot, "NotarizeVote")[1].t_ms = 200
    /\ VotesOf(QSlot, "NotarizeVote")[2] = VoteData("NotarizeVote", 100, 1, 3)
    /\ \E i \in EventIdx("mc.0", 5, "notarize_reached", "reached") :
          events[i].t_ms = 100

\* C19: a step that processes a skip-vote-certificate line of a registered
\* valgroup appends exactly one skip_observed local event carrying the file's
\* validator; on an existing Slot it sets is_empty and leaves start estimate,
\* collator and block id as they were, whatever the line's timestamp; on an
\* absent Slot it creates the Slot, empty, with the line's timestamp as start
\* estimate; no other Slot and nothing else changes.
C19_SkipLineFrame ==
    [][\A line \in Lines :
          (/\ line.kind = "skip"
           /\ pc = "parsing"
           /\ Registered(line)
           /\ LoopBody(line))
          => LET id == <<line.v_group, line.slot>>
                 k == SlotIndex(slots, id)
             IN  /\ events' = Append(events,
                        EventData(line.v_group, line.slot, "skip_observed",
                                  "local", line.t_ms, v_groups[line.v_group],
                                  None))
                 /\ IF HasSlot(slots, id)
                    THEN /\ Len(slots') = Len(slots)
                         /\ \A i \in 1..Len(slots) :
                               i # k => slots'[i] = slots[i]
                         /\ slots'[k].is_empty
                         /\ slots'[k].slot_start_est_ms
                               = slots[k].slot_start_est_ms
                         /\ slots'[k].collator = slots[k].collator
                         /\ slots'[k].block_id = slots[k].block_id
                         /\ <<slots'[k].valgroup_id, slots'[k].slot>> = id
                    ELSE slots' = Append(slots,
                            [valgroup_id |-> line.v_group, slot |-> line.slot,
                             is_empty |-> TRUE,
                             slot_start_est_ms |-> line.t_ms,
                             block_id |-> None, collator |-> None])
                 /\ UNCHANGED <<collated, votes, slot_leaders, total_weights,
                                pc>>
      ]_vars

\* slot 5 was created by a CollateStarted line at 20 and then had a skip
\* certificate at 10: it is empty and still starts at 20, with its collator;
\* slot 6 was created by a skip certificate
C19_Witness ==
    /\ Len(slots) = 2
    /\ slots[1].slot = 5
    /\ slots[1].is_empty
    /\ slots[1].slot_start_est_ms = 20
    /\ slots[1].collator # None
    /\ \E i \in EventIdx("mc.0", 5, "skip_observed", "local") :
          events[i].t_ms = 10 /\ events[i].validator = slots[1].collator
    /\ slots[2].slot = 6
    /\ slots[2].is_empty
    /\ EventIdx("mc.0", 6, "skip_observed", "local") # {}
    /\ Len(events) = 3

\* C20: a step that processes a vote-broadcast line (not a SkipVote) of a
\* registered valgroup appends one Vote, with the line's timestamp, the
\* file's validator and that validator's own weight, to the list under
\* (valgroup, slot) and the vote kind; every other list of the ledger, the
\* slots, the events, the leaders and the collation markers stay as they
\* were.  A step that processes a published line containing SkipVote leaves
\* the ledger as it was.
C20_VoteLineFrame ==
    [][\A line \in StreamLines :
          /\ (/\ line.kind = "vote"
              /\ line.ok
              /\ pc = "parsing"
              /\ Registered(line)
              /\ LoopBody(line))
             => LET key == <<line.v_group, line.slot>>
                    vd == [vote |-> line.vote, t_ms |-> line.t_ms,
                           v_id |-> v_groups[line.v_group],
                           weight |-> v_weights[line.v_group]]
                IN  /\ HasVotes(votes', key, line.vote)
                    /\ votes'[key][line.vote]
                          = Append(VotesOf(key, line.vote), vd)
                    /\ \A k \in DOMAIN votes' : \A v \in DOMAIN votes'[k] :
                          <<k, v>> # <<key, line.vote>> =>
                              /\ HasVotes(votes, k, v)
                              /\ votes'[k][v] = votes[k][v]
                    /\ \A k \in DOMAIN votes : \A v \in DOMAIN votes[k] :
                          HasVotes(votes', k, v)
                    /\ UNCHANGED <<slots, collated, slot_leaders, events,
                                   total_weights, pc>>
          /\ (/\ line.kind = "published"
              /\ pc = "parsing"
              /\ LoopBody(line))
             => UNCHANGED <<votes, slots, collated, slot_leaders, events, pc>>
      ]_vars

\* validator 1 (weight 2) in the first file and validator 3 (weight 1) in
\* the second each broadcast a NotarizeVote for slot 5 of "mc.0": the list
\* holds both votes, in that order, and no Slot or event was made
C20_Witness ==
    /\ file_no = 2
    /\ VotesOf(<<"mc.0", 5>>, "NotarizeVote")
          = <<VoteData("NotarizeVote", 20, 1, 2),
              VoteData("NotarizeVote", 20, 3, 1)>>
    /\ slots = <<>>
    /\ events = <<>>
    /\ slot_leaders = EmptyDict

\* the (valgroup, slot) keys a leader assignment can be looked at
LeaderKeys ==
    (DOMAIN slot_leaders)
    \cup {<<g, sn>> : g \in {"mc.0", "mc.1"}, sn \in 4..8}

\* C21: a step that processes a leader-window line with start_slot s and
\* end_slot e of a registered valgroup makes the file's validator the leader
\* of the slots s .. e - 1 of that valgroup, overwriting, and leaves the
\* leader of every other key (slot e, the other valgroup) as it was, present
\* or absent; with s >= e no assignment changes.  No Slot, event, vote or
\* collation marker changes.
C21_LeaderWindowFrame ==
    [][\A line \in StreamLines :
          (/\ line.kind = "leader"
           /\ line.ok
           /\ pc = "parsing"
           /\ Registered(line)
           /\ LoopBody(line))
          => /\ DOMAIN slot_leaders \subseteq DOMAIN slot_leaders'
             /\ \A k \in LeaderKeys \cup DOMAIN slot_leaders' :
                   IF /\ k[1] = line.v_group
                      /\ line.start_slot <= k[2]
                      /\ k[2] < line.end_slot
                   THEN /\ HasKey(slot_leaders', k)
                        /\ slot_leaders'[k] = v_groups[line.v_group]
                   ELSE Get(slot_leaders', k) = Get(slot_leaders, k)
             /\ line.start_slot >= line.end_slot =>
                   slot_leaders' = slot_leaders
             /\ UNCHANGED <<slots, events, votes, collated, total_weights,
                            pc>>
      ]_vars

\* validator 1 of "mc.0" announced the window 5..7, validator 2 of "mc.1"
\* then announced 6..8 and an empty window followed: slots 5 and 6 of "mc.0"
\* are led by 1, slots 6 and 7 of "mc.1" by 2, and nothing else is led
C21_Witness ==
    /\ Len(announced) = 3
    /\ announced[3].start_slot >= announced[3].end_slot
    /\ DOMAIN slot_leaders
          = {<<"mc.0", 5>>, <<"mc.0", 6>>, <<"mc.1", 6>>, <<"mc.1", 7>>}
    /\ slot_leaders[<<"mc.0", 5>>] = 1
    /\ slot_leaders[<<"mc.0", 6>>] = 1
    /\ slot_leaders[<<"mc.1", 6>>] = 2
    /\ slot_leaders[<<"mc.1", 7>>] = 2
    /\ slots = <<>>
    /\ events = <<>>

\* C22: a step that processes a target-reached line of a registered valgroup
\* whose transition name is one of the seven of TARGET_TO_LABEL appends
\* exactly one local event, last, with the mapped label, the line's timestamp
\* and the file's validator (the only other event it may append is the next
\* leader's observed event), and the Slot exists afterwards: created not
\* empty, with the line's timestamp, when it was absent.
C22_MappedTargetAppendsOneLocalEvent ==
    [][\A line \in TargetLines :
          (/\ line.kind = "target"
           /\ line.ok
           /\ line.target \in TargetNames
           /\ pc = "parsing"
           /\ Registered(line)
           /\ LoopBody(line))
          => LET id == <<line.v_group, line.slot>>
                 n == Len(events)
                 added == SubSeq(events', n + 1, Len(events'))
             IN  /\ SubSeq(events', 1, n) = events
                 /\ Len(added) \in {1, 2}
                 /\ added[Len(added)] =
                       [valgroup_id |-> line.v_group, slot |-> line.slot,
                        label |-> TARGET_TO_LABEL[line.target],
                        kind |-> "local", t_ms |-> line.t_ms,
                        validator |-> v_groups[line.v_group], t1_ms |-> None]
                 /\ Len(added) = 2 => added[1].kind = "observed"
                 /\ HasSlot(slots', id)
                 /\ IF HasSlot(slots, id)
                    THEN /\ Len(slots') = Len(slots)
                         /\ SlotOf(slots', id).is_empty
                               = SlotOf(slots, id).is_empty
                    ELSE /\ Len(slots') = Len(slots) + 1
                         /\ ~slots'[Len(slots')].is_empty
                         /\ slots'[Len(slots')].slot_start_est_ms = line.t_ms
                         /\ SubSeq(slots', 1, Len(slots)) = slots
      ]_vars

\* three target-reached lines of different transition names were processed
\* for slot 5, the first one creating the Slot: three local events
C22_Witness ==
    /\ Len(slots) = 1
    /\ ~slots[1].is_empty
    /\ Len(events) = 3
    /\ \A i \in 1..3 : events[i].kind = "local" /\ events[i].validator # None
    /\ events[1].label = "candidate_received"
    /\ events[2].label = "validate_finished"
    /\ events[3].label = "notarize_observed"

\* the (valgroup, slot) keys of the leader windows that were applied
WindowKeys ==
    UNION {{<<announced[i].v_group, n>> :
               n \in announced[i].start_slot..(announced[i].end_slot - 1)} :
           i \in 1..Len(announced)}

\* C23: when parse has returned, every Slot has exactly one slot_start_est
\* event, of kind estimate, whose time is the Slot's start estimate, and a
\* (valgroup, slot) without a Slot has no slot_start_est event of any kind,
\* whatever lines named it.
C23_OneStartEstimatePerSlot ==
    pc = "done" =>
        /\ \A i \in 1..Len(slots) :
              LET idx == {j \in 1..Len(events) :
                            /\ events[j].label = "slot_start_est"
                            /\ events[j].valgroup_id = slots[i].valgroup_id
                            /\ events[j].slot = slots[i].slot}
              IN  /\ Cardinality(idx) = 1
                  /\ \A j \in idx :
                        /\ events[j].kind = "estimate"
                        /\ events[j].t_ms = slots[i].slot_start_est_ms
                        /\ events[j].t1_ms = None
        /\ \A slot_id \in SlotIds \cup WindowKeys :
              ~HasSlot(slots, slot_id)
              => \A j \in 1..Len(events) :
                    ~(/\ events[j].label = "slot_start_est"
                      /\ events[j].valgroup_id = slot_id[1]
                      /\ events[j].slot = slot_id[2])

\* parse has returned with the empty Slot 6, estimated at 20, and with votes
\* for slot 5, which has no Slot
C23_Witness ==
    /\ pc = "done"
    /\ Len(slots) = 1
    /\ slots[1].slot = 6
    /\ slots[1].is_empty
    /\ slots[1].slot_start_est_ms = 20
    /\ VotesOf(<<"mc.0", 5>>, "NotarizeVote") # <<>>
    /\ EventIdx("mc.0", 6, "slot_start_est", "estimate") # {}

\* the kinds of line that carry the keyword of one of the three categories
CategoryKinds == {"target", "skip", "vote", "leader", "published"}

\* the line has no timestamp token, or no valgroup token, or is of a
\* registered valgroup and carries none of the category keywords
Uncategorised(line) ==
    \/ line.t_ms = None
    \/ line.v_group = NoValgroup
    \/ Registered(line) /\ line.kind \notin CategoryKinds

\* the step changes nothing of the parser but its position in the file
SilentlySkipped ==
    UNCHANGED <<slots, collated, votes, total_weights, slot_leaders, events,
                v_groups, v_weights, pc, seen, announced>>

\* C24 as claimed: a step that processes a line with no timestamp token, or
\* with no valgroup token, or of a registered valgroup with none of the
\* category keywords, changes no slot, vote, leader window, collation marker,
\* event or identity registry and raises nothing.
C24_UncategorisedLineIsSkipped ==
    [][\A line \in StreamLines :
          (pc = "parsing" /\ Uncategorised(line) /\ LoopBody(line))
          => SilentlySkipped
      ]_vars

\* C24, amended: the same, for the lines that are not identity lines either
\* (an identity line of a registered valgroup carries no category keyword and
\* is registered again).
C24_UnrecognisedLineIsSkipped ==
    [][\A line \in StreamLines :
          (/\ pc = "parsing"
           /\ Uncategorised(line)
           /\ line.kind = "info" => (line.t_ms = None \/ line.v_group = NoValgroup)
           /\ LoopBody(line))
          => SilentlySkipped
      ]_vars

\* three lines were read after the identity line and the target-reached line
\* of mc.0, and left nothing: one Slot, one event, no vote, no leader
C24_Witness ==
    /\ pc = "parsing"
    /\ n_lines = 5
    /\ DOMAIN v_groups = {"mc.0"}
    /\ v_groups["mc.0"] = 1
    /\ Len(slots) = 1
    /\ Len(events) = 1
    /\ events[1].label = "collate_started"
    /\ votes = EmptyDict
    /\ slot_leaders = EmptyDict

\* the positions of the phase events
PhaseIdx == {i \in 1..Len(events) : events[i].kind = "phase"}

\* C25: when parse has returned, every phase event (collate, notarize,
\* finalize) has an end time, and does not end before it starts.
C25_PhaseEndsAfterItStarts ==
    pc = "done" =>
        \A i \in PhaseIdx :
            /\ events[i].label \in {"collate", "notarize", "finalize"}
            /\ events[i].t1_ms # None
            /\ events[i].t_ms <= events[i].t1_ms

\* C26: when parse has returned, a notarize phase of a slot starts at the end
\* of the slot's collate phase, which is the timestamp of the last processed
\* CollateFinished line of the slot, and a finalize phase starts at the end
\* of the slot's notarize phase.
C26_PhasesAreContiguous ==
    pc = "done" =>
        \A id \in SlotIds :
            LET collate == EventIdx(id[1], id[2], "collate", "phase")
                notarize == EventIdx(id[1], id[2], "notarize", "phase")
                finalize == EventIdx(id[1], id[2], "finalize", "phase")
                finished == EventIdx(id[1], id[2], "collate_finished", "local")
            IN  /\ \A n \in notarize :
                      /\ collate # {}
                      /\ finished # {}
                      /\ \A c \in collate : events[n].t_ms = events[c].t1_ms
                      /\ events[n].t_ms = events[SetMax(finished)].t_ms
                /\ \A f \in finalize :
                      /\ notarize # {}
                      /\ \A n \in notarize : events[f].t_ms = events[n].t1_ms

\* a snapshot of slot 5 after two CollateFinished lines, the later one
\* stamped earlier, with a notarize phase longer than an instant
C26_Witness ==
    /\ pc = "done"
    /\ \E i, j \in EventIdx("mc.0", 5, "collate_finished", "local") :
          i < j /\ events[j].t_ms < events[i].t_ms
    /\ \E n \in EventIdx("mc.0", 5, "notarize", "phase") :
          events[n].t_ms < events[n].t1_ms

\* the weight held by the distinct validators of the votes: each validator
\* counted once, at its first vote
RECURSIVE DistinctWeight(_)
DistinctWeight(vs) ==
    IF vs = <<>>
    THEN 0
    ELSE LET rest == SubSeq(vs, 1, Len(vs) - 1)
             last == vs[Len(vs)]
         IN  DistinctWeight(rest)
             + (IF \E i \in 1..Len(rest) : rest[i].v_id = last.v_id
                THEN 0 ELSE last.weight)

\* the Vote records of a slot stamped t, of either kind
VotesAt(slot_id, t) ==
    LET n == VotesOf(slot_id, "NotarizeVote")
        f == VotesOf(slot_id, "FinalizeVote")
    IN  Cardinality({i \in 1..Len(n) : n[i].t_ms = t})
        + Cardinality({i \in 1..Len(f) : f[i].t_ms = t})

\* C27: no vote is dropped for coming from a validator that has voted: every
\* processed vote line is one Vote record, the same line processed k times is
\* k records, and the pass reports the notarize crossing of a collated slot
\* exactly when the records, each with its weight, weigh the threshold,
\* whoever cast them.
C27_EveryVoteRecordCounts ==
    \A id \in SlotIds :
        /\ \A l \in LinesOf(id, {"vote"}) :
              VotesAt(id, l.t_ms) = CopiesIn(l, seen)
        /\ pc = "done" /\ HasCollation(collated, id) =>
              LET vs == VotesOf(id, "NotarizeVote")
              IN  (EventIdx(id[1], id[2], "notarize_reached", "reached") # {})
                    <=> (WeightOf(vs) >= TwoThirdsPlusOne(total_weights[id[1]]))

\* total weight 2, threshold 2: validator 2, of weight 1, had its notarize
\* vote line processed twice, and the crossing is reported although the only
\* validator that voted holds 1
C27_Witness ==
    /\ pc = "done"
    /\ HasKey(total_weights, "mc.0")
    /\ total_weights["mc.0"] = 2
    /\ Len(VotesOf(QSlot, "NotarizeVote")) = 2
    /\ VotesOf(QSlot, "NotarizeVote")[1] = VotesOf(QSlot, "NotarizeVote")[2]
    /\ DistinctWeight(VotesOf(QSlot, "NotarizeVote")) = 1
    /\ DistinctWeight(VotesOf(QSlot, "NotarizeVote"))
          < TwoThirdsPlusOne(total_weights["mc.0"])
    /\ EventIdx("mc.0", 5, "notarize_reached", "reached") # {}
    /\ EventIdx("mc.0", 5, "notarize", "phase") # {}

DerivedLabels ==
    {<<"collate", "phase">>, <<"notarize", "phase">>, <<"finalize", "phase">>,
     <<"notarize_reached", "reached">>, <<"finalize_reached", "reached">>}

\* C28: during and after one parse of a new parser there is at most one Slot
\* for a (valgroup, slot) key, and at most one event of each of the labels
\* collate, notarize, finalize, notarize_reached and finalize_reached for a
\* key, of whatever kind.
C28_OneSlotAndOneDerivedEventPerKey ==
    /\ \A i, j \in 1..Len(slots) :
          (slots[i].valgroup_id = slots[j].valgroup_id
             /\ slots[i].slot = slots[j].slot) => i = j
    /\ \A id \in SlotIds : \A d \in DerivedLabels :
          /\ Cardinality({i \in 1..Len(events) :
                            /\ events[i].valgroup_id = id[1]
                            /\ events[i].slot = id[2]
                            /\ events[i].label = d[1]}) <= 1
          /\ \A i \in 1..Len(events) :
                events[i].label = d[1] => events[i].kind = d[2]

\* a snapshot under threshold 1 with two notarize votes, each of which
\* reaches the threshold, after a CollateStarted and a CollateFinished line:
\* one Slot, one collate, one notarize_reached, one notarize
C28_Witness ==
    /\ pc = "done"
    /\ Len(slots) = 1
    /\ HasKey(total_weights, "mc.0")
    /\ total_weights["mc.0"] = 1
    /\ Len(VotesOf(QSlot, "NotarizeVote")) = 2
    /\ Cardinality(EventIdx("mc.0", 5, "collate", "phase")) = 1
    /\ Cardinality(EventIdx("mc.0", 5, "notarize_reached", "reached")) = 1
    /\ Cardinality(EventIdx("mc.0", 5, "notarize", "phase")) = 1

\* C29: a (valgroup, slot) for which only vote lines and leader windows were
\* processed, no target-reached line and no skip certificate, has no Slot,
\* during the parse and in the snapshot, and no estimate, reached or phase
\* event, whatever its votes weigh.
C29_VotesAndWindowsCreateNoSlot ==
    \A id \in SlotIds \cup WindowKeys :
        LinesOf(id, {"target", "skip"}) = {}
        => /\ ~HasSlot(slots, id)
           /\ \A i \in Derived(events) :
                 <<events[i].valgroup_id, events[i].slot>> # id

\* a snapshot in which slot 5 of mc.0 has a leader and notarize votes of
\* weight 4, over the threshold 3, no Slot and no derived event
C29_Witness ==
    /\ pc = "done"
    /\ HasKey(total_weights, "mc.0")
    /\ WeightOf(VotesOf(<<"mc.0", 5>>, "NotarizeVote"))
          >= TwoThirdsPlusOne(total_weights["mc.0"])
    /\ HasKey(slot_leaders, <<"mc.0", 5>>)
    /\ ~HasSlot(slots, <<"mc.0", 5>>)
    /\ Derived(events) = {}

\* C30: while parse reads, every Slot is of a valgroup that has its total
\* weight, so the pass finds it: an error comes from a line, never from the
\* pass; and a step that creates a Slot processes a line of a valgroup whose
\* validator id, own weight and total weight were registered in the file
\* being read.
C30_SlotsHaveTheirTotalWeight ==
    [][/\ pc = "parsing" =>
             /\ \A i \in 1..Len(slots) :
                   HasKey(total_weights, slots[i].valgroup_id)
             /\ InferFrom(1, slots, collated, votes, total_weights,
                          events).ok
       /\ pc' = "error" => n_lines' = n_lines + 1
       /\ Len(slots') > Len(slots) =>
             LET v_group == slots'[Len(slots')].valgroup_id
             IN  /\ HasKey(v_groups, v_group)
                 /\ HasKey(v_weights, v_group)
                 /\ HasKey(total_weights, v_group)
      ]_vars

\* the pass has run over the Slots of two valgroups, the second one created
\* in a second file
C30_Witness ==
    /\ pc = "done"
    /\ file_no = 2
    /\ Len(slots) = 2
    /\ slots[1].valgroup_id = "mc.0"
    /\ slots[2].valgroup_id = "mc.1"
    /\ DOMAIN v_groups = {"mc.1"}
    /\ Cardinality(Derived(events)) = 2

\* C31: a step that processes a target-reached line of a registered valgroup
\* whose transition name is none of the seven of TARGET_TO_LABEL creates the
\* Slot when it is absent, not empty and estimated at the line's timestamp,
\* and otherwise lowers the Slot's start estimate to the line's timestamp
\* when that is earlier, leaving its other fields and the other Slots as
\* they were; it appends no event and records no collation marker.
C31_UnmappedTargetTouchesOnlyTheSlot ==
    [][\A line \in TargetLines :
          (/\ line.kind = "target"
           /\ line.ok
           /\ line.target \notin TargetNames
           /\ pc = "parsing"
           /\ Registered(line)
           /\ LoopBody(line))
          => LET id == <<line.v_group, line.slot>>
             IN  /\ events' = events
                 /\ collated' = collated
                 /\ UNCHANGED <<votes, slot_leaders, pc>>
                 /\ IF HasSlot(slots, id)
                    THEN /\ Len(slots') = Len(slots)
                         /\ \A i \in 1..Len(slots) :
                               IF <<slots[i].valgroup_id, slots[i].slot>> = id
                               THEN slots'[i] =
                                      [slots[i] EXCEPT !.slot_start_est_ms =
                                          IF line.t_ms < @ THEN line.t_ms
                                          ELSE @]
                               ELSE slots'[i] = slots[i]
                    ELSE slots' = Append(slots,
                            [valgroup_id |-> line.v_group, slot |-> line.slot,
                             is_empty |-> FALSE,
                             slot_start_est_ms |-> line.t_ms,
                             block_id |-> None, collator |-> None])
      ]_vars

\* target-reached lines stamped 10 and 20 were processed for slot 5 and no
\* event was appended: the lines had an unmapped name, and the Slot they
\* created is estimated at 10
C31_Witness ==
    /\ pc = "parsing"
    /\ events = <<>>
    /\ collated = EmptyDict
    /\ Len(slots) = 1
    /\ ~slots[1].is_empty
    /\ slots[1].slot_start_est_ms = 10
    /\ slots[1].collator = None
    /\ \A t \in {10, 20} :
          CopiesIn([v_group |-> "mc.0", slot |-> 5, kind |-> "target",
                    t_ms |-> t], seen) = 1

\* the (valgroup, slot) keys of the Slots that filter_slots returns for the
\* request of the figure
SlotsShown(f) ==
    LET shown == FilterSlots(ConsensusData(slots, events), f.valgroup_id,
                             f.slot_from, f.slot_to, f.show_empty)
    IN  {<<shown[i].valgroup_id, shown[i].slot>> : i \in 1..Len(shown)}

\* C32: every phase segment and every marker that build_summary passes to the
\* summary figure is an event of a Slot that filter_slots returns for the
\* requested valgroup, slot range and show_empty flag; when filter_slots
\* returns no Slot, no event is passed.
C32_SummaryShowsOnlyTheFilteredSlots ==
    figure # <<>> =>
        LET f == figure[1]
        IN  /\ \A i \in 1..Len(f.segments) :
                  <<f.segments[i].valgroup_id, f.segments[i].slot>>
                     \in SlotsShown(f)
            /\ \A i \in 1..Len(f.markers) :
                  <<f.markers[i].valgroup_id, f.markers[i].slot>>
                     \in SlotsShown(f)
            /\ SlotsShown(f) = {} => f.segments = <<>> /\ f.markers = <<>>

====
